---------------------------- MODULE Spec2Model ----------------------------
(***************************************************************************)
(* auto2cmake: conversion of an Autotools project (configure.ac plus       *)
(* Makefile.am files) into CMakeLists.txt files.                           *)
(*                                                                         *)
(* Text is modelled as Python str values: sequences of one-character       *)
(* strings.  Dictionaries are modelled as sequences of records in          *)
(* insertion order, which is the order Python iterates them in.            *)
(***************************************************************************)
EXTENDS Integers, Sequences, FiniteSets, TLC

\* the value of a one-point function [name \in {value} |-> body]: body with
\* name bound to value (a local assignment of the code)
Bind(f) == f[CHOOSE x \in DOMAIN f : TRUE]

VARIABLES
    pc,                    \* position of convert() / process_configure_ac()
    content,               \* the lines of configure.ac
    ci,                    \* loop index i of process_configure_ac (1-based)
    current_line,          \* process_configure_ac: current_line
    previous_line,         \* process_configure_ac: previous_line
    line_distance,         \* process_configure_ac: line_distance
    options,               \* global options (dict, insertion order)
    temp_defines,          \* global temp_defines (dict, insertion order)
    config_ac_variables,   \* global config_ac_variables
    makefiles,             \* the Makefile.am files of the project: path -> lines
    source_files,          \* the paths os.path.isfile finds in the source tree
    exclude_directories,   \* global exclude_directories (-e)
    old_files,             \* the directories that hold a CMakeLists.txt before the run
    libraries,             \* global libraries
    heap,                  \* the value lists shared by reference between
                           \* defined_variables, conditional_appends and just_variables
    extra_content,         \* global extra_content: directory -> subdirectories
    required_directories,  \* global required_directories
    cmake_files,           \* global cmake_files: directory -> CMakeFile
    disk,                  \* the CMakeLists.txt files on disk: directory -> text
    diag                   \* the warnings printed

scanVars == <<content, ci, current_line, previous_line, line_distance>>
confVars == <<options, temp_defines, config_ac_variables>>
inputVars == <<makefiles, source_files, exclude_directories, old_files>>
makeVars == <<libraries, heap, extra_content, required_directories>>
genVars == <<cmake_files, disk, diag>>

vars == <<pc, scanVars, confVars, inputVars, makeVars, genVars>>

-----------------------------------------------------------------------------
(* Python str primitives *)

Letters == {"a","b","c","d","e","f","g","h","i","j","k","l","m","n","o","p",
            "q","r","s","t","u","v","w","x","y","z",
            "A","B","C","D","E","F","G","H","I","J","K","L","M","N","O","P",
            "Q","R","S","T","U","V","W","X","Y","Z"}
Digits == {"0","1","2","3","4","5","6","7","8","9"}
Spaces == {" ", "\t", "\n"}

LowerSeq == <<"a","b","c","d","e","f","g","h","i","j","k","l","m","n","o","p",
              "q","r","s","t","u","v","w","x","y","z">>
UpperSeq == <<"A","B","C","D","E","F","G","H","I","J","K","L","M","N","O","P",
              "Q","R","S","T","U","V","W","X","Y","Z">>

\* str.upper() on one character
UpperChar(c) ==
    IF \E k \in 1..26 : LowerSeq[k] = c
    THEN UpperSeq[CHOOSE k \in 1..26 : LowerSeq[k] = c]
    ELSE c

\* str.upper()
Upper(s) == [k \in 1..Len(s) |-> UpperChar(s[k])]

\* s[a:] with a 0-based as in Python (a >= 0)
From(s, a) == IF a >= Len(s) THEN <<>> ELSE SubSeq(s, a + 1, Len(s))

\* s[:-n]
DropLast(s, n) == IF n >= Len(s) THEN <<>> ELSE SubSeq(s, 1, Len(s) - n)

\* s.startswith(p)
StartsWith(s, p) == Len(p) <= Len(s) /\ SubSeq(s, 1, Len(p)) = p

\* s.endswith(p)
EndsWith(s, p) ==
    Len(p) <= Len(s) /\ SubSeq(s, Len(s) - Len(p) + 1, Len(s)) = p

\* s.find(p): 1-based position of the first occurrence, 0 when absent
Find(s, p) ==
    Bind([hits \in {{k \in 1..(Len(s) - Len(p) + 1) : SubSeq(s, k, k + Len(p) - 1) = p}} |->
       IF Len(p) = 0 THEN 1
       ELSE IF hits = {} THEN 0
       ELSE CHOOSE k \in hits : \A j \in hits : k <= j])

\* p in s
Contains(s, p) == Find(s, p) # 0

\* s.replace(a, "") for a set of single characters
RemoveChars(s, cs) == SelectSeq(s, LAMBDA c : c \notin cs)

\* s.replace(a, b) for single characters a, b
ReplaceChar(s, a, b) == [k \in 1..Len(s) |-> IF s[k] = a THEN b ELSE s[k]]

\* s.replace(p, "", 1)
RemoveFirst(s, p) ==
    Bind([k \in {Find(s, p)} |->
       IF k = 0 \/ Len(p) = 0 THEN s
       ELSE SubSeq(s, 1, k - 1) \o SubSeq(s, k + Len(p), Len(s))])

RECURSIVE RemoveAll(_, _)
\* s.replace(p, "") for a non-empty str p
RemoveAll(s, p) ==
    Bind([k \in {Find(s, p)} |->
       IF k = 0 \/ Len(p) = 0 THEN s
       ELSE SubSeq(s, 1, k - 1) \o RemoveAll(SubSeq(s, k + Len(p), Len(s)), p)])

\* s.strip()
Strip(s) ==
    Bind([keep \in {{k \in 1..Len(s) : s[k] \notin Spaces}} |->
       IF keep = {} THEN <<>>
       ELSE SubSeq(s, CHOOSE k \in keep : \A j \in keep : k <= j,
                      CHOOSE k \in keep : \A j \in keep : k >= j)])

\* the k-th smallest element of a set of numbers
Nth(ks, n) == CHOOSE k \in ks : Cardinality({j \in ks : j <= k}) = n

\* the positions at which a word of s starts
WordStarts(s) ==
    {k \in 1..Len(s) : s[k] \notin Spaces /\ (k = 1 \/ s[k - 1] \in Spaces)}

\* the positions at which a word of s ends
WordEnds(s) ==
    {k \in 1..Len(s) : s[k] \notin Spaces /\ (k = Len(s) \/ s[k + 1] \in Spaces)}

\* the words between the starts and the ends, in order
Words(s, starts, ends) ==
    [n \in 1..Cardinality(starts) |-> SubSeq(s, Nth(starts, n), Nth(ends, n))]

\* s.split()
Split(s) == Words(s, WordStarts(s), WordEnds(s))

\* the parts of s between the cuts, the last of which is the end of s
Parts(s, cuts) ==
    [n \in 1..Cardinality(cuts) |->
       SubSeq(s, IF n = 1 THEN 1 ELSE Nth(cuts, n - 1) + 1, Nth(cuts, n) - 1)]

\* s.split(c) for a single character c
SplitOn(s, c) == Parts(s, {k \in 1..Len(s) : s[k] = c} \cup {Len(s) + 1})

RECURSIVE Join(_, _)
\* sep.join(parts)
Join(sep, parts) ==
    IF parts = <<>> THEN <<>>
    ELSE IF Len(parts) = 1 THEN parts[1]
    ELSE parts[1] \o sep \o Join(sep, Tail(parts))

\* the text of s up to (not including) the first character in stop
UpTo(s, stop) ==
    Bind([hits \in {{k \in 1..Len(s) : s[k] \in stop}} |->
       IF hits = {} THEN s
       ELSE SubSeq(s, 1, (CHOOSE k \in hits : \A j \in hits : k <= j) - 1)])

-----------------------------------------------------------------------------
(* Helper functions of auto2cmake.py *)

\* count_parentheses: the number of ( minus the number of )
count_parentheses(line) ==
    Cardinality({k \in 1..Len(line) : line[k] = "("})
    - Cardinality({k \in 1..Len(line) : line[k] = ")"})

RECURSIVE replace_quotes(_)
\* a.replace('"', '\\"')
replace_quotes(a) ==
    IF a = <<>> THEN <<>>
    ELSE (IF Head(a) = "\"" THEN <<"\\", "\"">> ELSE <<Head(a)>>)
         \o replace_quotes(Tail(a))

remove_garbage(extra_value) ==
    Strip(RemoveChars(extra_value, {"]", ",", "[", "$", "(", ")"}))

canonicalize(a) ==
    [k \in 1..Len(a) |->
        IF a[k] \in Digits \/ a[k] \in Letters \/ a[k] = "_" THEN a[k] ELSE "_"]


-----------------------------------------------------------------------------
(* String constants of the program *)

sAC_ARG_ENABLE == <<"A","C","_","A","R","G","_","E","N","A","B","L","E","(">>
sAM_CONDITIONAL == <<"A","M","_","C","O","N","D","I","T","I","O","N","A","L","(">>
sAC_DEFINE == <<"A","C","_","D","E","F","I","N","E","(">>
sAC_CONFIG_FILES == <<"A","C","_","C","O","N","F","I","G","_","F","I","L","E","S","(">>
sON == <<"O","N">>
sOFF == <<"O","F","F">>
sYes == <<"=","y","e","s">>
sEnable == <<"E","n","a","b","l","e"," ">>
sEmpty == <<>>

-----------------------------------------------------------------------------
(* class Option and the options dictionary *)

\* Option.__init__
Option(key, name, description, status, define, define_value, define_description) ==
    [key |-> key,
     name |-> Upper(ReplaceChar(name, "-", "_")),
     description |-> description,
     status |-> status,
     define |-> define,
     define_value |-> RemoveChars(define_value, {"]", ",", "["}),
     define_description |-> define_description,
     extra_defines |-> <<>>]

\* Option.set_define_value
set_define_value(define_value) ==
    IF Contains(define_value, <<"[">>)
    THEN RemoveChars(define_value, {"]", "["})
    ELSE define_value

\* Option.finalize (with a name that is not canonical the default description
\* still uses self.name as it stands)
finalize(o) ==
    Bind([d \in {IF Len(o.description) <= 1 THEN sEnable \o o.name ELSE o.description} |->
       [o EXCEPT !.description = d,
                 !.status = IF Len(o.status) <= 1 THEN sOFF ELSE o.status,
                 !.define_description =
                     IF Len(o.define_description) <= 1 THEN d
                     ELSE o.define_description]])

\* name in dict
HasKey(d, k) == \E n \in 1..Len(d) : d[n].key = k

\* position of a key in a dict
KeyIndex(d, k) == CHOOSE n \in 1..Len(d) : d[n].key = k

\* first index j >= k (1-based) at which s[j] is not in cs when stay is TRUE,
\* or is in cs when stay is FALSE; 0 when the scan runs off the end of s,
\* where Python evaluates s[i] with i = len(s) and raises IndexError
SkipWhile(s, k, cs, stay) ==
    Bind([stop \in {{j \in (IF k = 0 THEN {} ELSE k..Len(s)) :
                        IF stay THEN s[j] \notin cs ELSE s[j] \in cs}} |->
       IF stop = {} THEN 0 ELSE CHOOSE j \in stop : \A m \in stop : j <= m])

\* process_argument: the description scan. [ok, description]
argument_description(s) ==
    Bind([p \in {Find(s, <<"[">>)} |->
    Bind([j1 \in {SkipWhile(s, p + 1, {" "}, TRUE)} |->
    Bind([j2 \in {IF j1 = 0 THEN 0 ELSE SkipWhile(s, j1, {" "}, FALSE)} |->
    Bind([j3 \in {IF j2 = 0 THEN 0 ELSE SkipWhile(s, j2, {" "}, TRUE)} |->
    Bind([j4 \in {IF j3 = 0 THEN 0 ELSE SkipWhile(s, j3, {"]"}, FALSE)} |->
       IF p = 0 THEN [ok |-> TRUE, description |-> <<>>]
       ELSE IF j4 = 0 THEN [ok |-> FALSE, description |-> <<>>]
       ELSE [ok |-> TRUE, description |-> SubSeq(s, j3, j4 - 1)]])])])])])

\* the key process_argument looks the Option up by
argument_key(arg_name) == ReplaceChar(arg_name, "-", "_")

\* the name process_argument gives an Option that already exists
argument_set_name(arg_name) == arg_name

\* process_argument(line): [ok, options]
process_argument(opts, line) ==
    Bind([s \in {Strip(From(line, Len(sAC_ARG_ENABLE)))} |->
    Bind([arg_name \in {argument_key(UpTo(s, {","}))} |->
    Bind([d \in {argument_description(s)} |->
    Bind([on_off \in {IF Contains(s, sYes) THEN sON ELSE sOFF} |->
       IF ~d.ok THEN [ok |-> FALSE, options |-> opts]
       ELSE IF ~HasKey(opts, arg_name)
       THEN [ok |-> TRUE,
             options |-> Append(opts, Option(arg_name, arg_name, d.description,
                                             on_off, <<>>, <<>>, <<>>))]
       ELSE [ok |-> TRUE,
             options |-> [opts EXCEPT ![KeyIndex(opts, arg_name)] =
                             [@ EXCEPT !.name = argument_set_name(arg_name),
                                       !.description = d.description,
                                       !.status = on_off]]]])])])])

\* process_conditional: the text after the first $ up to a quote, space or =
bound_option_of(s) ==
    Bind([p \in {Find(s, <<"$">>)} |->
       IF p = 0 THEN <<>> ELSE UpTo(From(s, p), {"\"", " ", "="})])

\* the key process_conditional looks the Option up by
conditional_key(bound_option) == ReplaceChar(bound_option, "-", "_")

\* process_conditional(line)
process_conditional(opts, line) ==
    Bind([s \in {Strip(From(line, Len(sAM_CONDITIONAL)))} |->
    Bind([define_name \in {UpTo(s, {","})} |->
    Bind([bound_option \in {conditional_key(bound_option_of(s))} |->
       IF HasKey(opts, bound_option)
       THEN [opts EXCEPT ![KeyIndex(opts, bound_option)] =
                [@ EXCEPT !.define = define_name]]
       ELSE Append(opts, Option(bound_option, bound_option, <<>>, <<>>,
                                define_name, <<>>, <<>>))])])])

RECURSIVE define_scan(_, _, _)
\* process_a_define: the three-stage scan, st = [stage, sqp, roup, name, value, descr]
define_scan(s, k, st) ==
    IF k > Len(s) THEN st
    ELSE Bind([c \in {s[k]} |->
         Bind([sqp \in {st.sqp + (IF c = "[" THEN 1 ELSE IF c = "]" THEN -1 ELSE 0)} |->
         Bind([roup \in {st.roup + (IF c = "(" THEN 1 ELSE IF c = ")" THEN -1 ELSE 0)} |->
         Bind([stage \in {IF c = "," /\ sqp = 0 THEN st.stage + 1 ELSE st.stage} |->
            IF c = ")" /\ roup = 0 THEN st
            ELSE IF stage = 4 THEN st
            ELSE define_scan(s, k + 1,
                    [stage |-> stage, sqp |-> sqp, roup |-> roup,
                     name |-> IF stage = 1 /\ c # "," THEN Append(st.name, c)
                              ELSE st.name,
                     value |-> IF stage = 2 /\ c # "," THEN Append(st.value, c)
                               ELSE st.value,
                     descr |-> IF stage = 3 THEN Append(st.descr, c)
                               ELSE st.descr])])])])])

\* process_a_define: the variable name after the first $ up to a quote
define_variable_name(s) ==
    Bind([p \in {Find(s, <<"$">>)} |->
       IF p = 0 THEN <<>> ELSE UpTo(From(s, p), {"\""})])

\* process_a_define(line)
process_a_define(defs, line) ==
    Bind([s \in {Strip(From(line, Len(sAC_DEFINE)))} |->
    Bind([r \in {
             define_scan(s, 1, [stage |-> 1, sqp |-> 0, roup |-> 1,
                                name |-> <<>>, value |-> <<>>, descr |-> <<>>])
          } |->
    Bind([d \in {
             [key |-> r.name,
              name |-> r.name,
              option_name |-> Upper(define_variable_name(s)),
              description |-> r.descr,
              value |-> r.value,
              used |-> 0]
          } |->
       IF HasKey(defs, r.name)
       THEN [defs EXCEPT ![KeyIndex(defs, r.name)] = d]
       ELSE Append(defs, d)])])])

\* processable_line
processable_line(line) ==
    IF StartsWith(line, sAC_ARG_ENABLE) THEN DropLast(sAC_ARG_ENABLE, 1)
    ELSE IF StartsWith(line, sAM_CONDITIONAL) THEN DropLast(sAM_CONDITIONAL, 1)
    ELSE IF StartsWith(line, sAC_DEFINE) THEN DropLast(sAC_DEFINE, 1)
    ELSE IF StartsWith(line, sAC_CONFIG_FILES) THEN DropLast(sAC_CONFIG_FILES, 1)
    ELSE <<>>

-----------------------------------------------------------------------------
(* Ordering of str values, as used by sorted() *)

\* the characters of the model in code point order
Ascii == <<"\t"," ","\"","#","$","(",")","+",",","-",".","/","0","1","2","3","4","5","6","7","8","9",";","=","@","A","B","C","D","E","F","G","H","I","J","K","L","M","N","O","P","Q","R","S","T","U","V","W","X","Y","Z","[","\\","]","_","a","b","c","d","e","f","g","h","i","j","k","l","m","n","o","p","q","r","s","t","u","v","w","x","y","z">>

\* ord(c)
Ord(c) == CHOOSE k \in 1..Len(Ascii) : Ascii[k] = c

RECURSIVE StrLess(_, _)
\* a < b on str
StrLess(a, b) ==
    IF b = <<>> THEN FALSE
    ELSE IF a = <<>> THEN TRUE
    ELSE IF Head(a) = Head(b) THEN StrLess(Tail(a), Tail(b))
    ELSE Ord(Head(a)) < Ord(Head(b))

RECURSIVE SortedPairs(_)
\* sorted(xs, key=...) on pairs [k, v]: stable insertion sort on the str key k
SortedPairs(xs) ==
    IF xs = <<>> THEN <<>>
    ELSE Bind([rest \in {SortedPairs(SubSeq(xs, 1, Len(xs) - 1))} |->
         Bind([x \in {xs[Len(xs)]} |->
         Bind([before \in {{n \in 1..Len(rest) : ~StrLess(x.k, rest[n].k)}} |->
         Bind([m \in {
                  IF before = {} THEN 0
                  ELSE CHOOSE n \in before : \A j \in before : n >= j
               } |->
            SubSeq(rest, 1, m) \o <<x>> \o SubSeq(rest, m + 1, Len(rest))])])])])

\* sorted(elements) on a list of str
SortedStrs(xs) ==
    Bind([ps \in {SortedPairs([n \in 1..Len(xs) |-> [k |-> xs[n], v |-> xs[n]]])} |->
       [n \in 1..Len(ps) |-> ps[n].v]])

-----------------------------------------------------------------------------
(* difflib.SequenceMatcher(None, a, b).ratio() > 0.5 *)

RECURSIVE Extent(_, _, _, _, _, _)
\* length of the common run of a[i..ahi] and b[j..bhi] starting at i and j
Extent(a, i, ahi, b, j, bhi) ==
    IF i > ahi \/ j > bhi THEN 0
    ELSE IF a[i] # b[j] THEN 0
    ELSE 1 + Extent(a, i + 1, ahi, b, j + 1, bhi)

RECURSIVE MatchCount(_, _, _, _, _, _)
\* sum of the sizes of get_matching_blocks() within a[alo..ahi], b[blo..bhi]:
\* the longest block (earliest in a, then earliest in b), then both sides of it
MatchCount(a, alo, ahi, b, blo, bhi) ==
    IF alo > ahi \/ blo > bhi THEN 0
    ELSE Bind([ks \in {{Extent(a, i, ahi, b, j, bhi) : i \in alo..ahi, j \in blo..bhi}} |->
         Bind([k \in {CHOOSE x \in ks : \A y \in ks : x >= y} |->
         Bind([is \in {{i \in alo..ahi : \E j \in blo..bhi : Extent(a, i, ahi, b, j, bhi) = k}} |->
         Bind([i0 \in {CHOOSE i \in is : \A x \in is : i <= x} |->
         Bind([js \in {{j \in blo..bhi : Extent(a, i0, ahi, b, j, bhi) = k}} |->
         Bind([j0 \in {CHOOSE j \in js : \A x \in js : j <= x} |->
            IF k = 0 THEN 0
            ELSE k + MatchCount(a, alo, i0 - 1, b, blo, j0 - 1)
                   + MatchCount(a, i0 + k, ahi, b, j0 + k, bhi)])])])])])])

\* similar(a, b) > 0.5, ratio = 2 * matches / (len(a) + len(b)), 1.0 for two
\* empty strings
similar_above_half(a, b) ==
    IF Len(a) + Len(b) = 0 THEN TRUE
    ELSE 4 * MatchCount(a, 1, Len(a), b, 1, Len(b)) > Len(a) + Len(b)

-----------------------------------------------------------------------------
(* class Library and the global libraries list *)

s_LIBRARIES == <<"_","L","I","B","R","A","R","I","E","S">>
s_PROGRAMS == <<"_","P","R","O","G","R","A","M","S">>
s_SOURCES == <<"_","S","O","U","R","C","E","S">>
s_LDADD == <<"_","L","D","A","D","D">>
s_CXXFLAGS == <<"_","C","X","X","F","L","A","G","S">>
s_CPPFLAGS == <<"_","C","P","P","F","L","A","G","S">>
s_CFLAGS == <<"_","C","F","L","A","G","S">>
s_LDFLAGS == <<"_","L","D","F","L","A","G","S">>
sSUBDIRS == <<"S","U","B","D","I","R","S">>
sDotA == <<".","a">>
sIf == <<"i","f">>
sEndif == <<"e","n","d","i","f">>
sPlusEq == <<"+","=">>
sTabSpace == <<"\t", " ">>
sSlash == <<"/">>

\* a kind that is taken from the suffix alone, also for a dependant target
library_type_by_suffix(name, dependant) ==
    IF EndsWith(name, sDotA) THEN "STATIC" ELSE "DYNAMIC"

\* Library.__init__: the static/dynamic kind of a target
library_type(name, dependant) ==
    IF ~dependant THEN (IF EndsWith(name, sDotA) THEN "STATIC" ELSE "DYNAMIC")
    ELSE "STATIC"

\* Library.__init__
Library(raw_name, directory) ==
    Bind([dependant \in {Contains(raw_name, <<"$">>)} |->
    Bind([name \in {IF dependant THEN RemoveChars(raw_name, {"$", "(", ")"}) ELSE raw_name} |->
       [name |-> name,
        dependant |-> dependant,
        filelist |-> <<>>,
        condition |-> [kind |-> "list", chars |-> <<>>],
        link_with_libs |-> <<>>,
        compiler_flags |-> <<>>,
        linker_flags |-> <<>>,
        conditional_appends |-> <<>>,
        just_variables |-> <<>>,
        target_type |-> "LIBRARY",
        referred_name |->
            IF dependant THEN name
            ELSE IF EndsWith(name, sDotA) THEN DropLast(From(name, 3), 2)
            ELSE DropLast(From(name, 3), 3),
        canonic_name |-> canonicalize(name),
        directory |-> directory,
        type |-> library_type(name, dependant)]])])

\* has_library
has_library(libs, name) == \E n \in 1..Len(libs) : libs[n].canonic_name = name

\* get_library_for_name: index of the first library of that canonical name, 0 for None
get_library_for_name(libs, name) ==
    IF has_library(libs, name)
    THEN CHOOSE n \in 1..Len(libs) :
            /\ libs[n].canonic_name = name
            /\ \A m \in 1..(n - 1) : libs[m].canonic_name # name
    ELSE 0

\* a tool that excludes no directory
should_exclude_never(excl, dire) == FALSE

\* should_exclude
should_exclude(excl, dire) == \E n \in 1..Len(excl) : StartsWith(dire, excl[n])

\* os.path.dirname of a path that holds a /
dirname(path) ==
    Bind([hits \in {{k \in 1..Len(path) : path[k] = "/"}} |->
       IF hits = {} THEN <<>>
       ELSE SubSeq(path, 1, (CHOOSE k \in hits : \A j \in hits : k >= j) - 1)])

\* process_makefile_am, first run: the target type a declaring line gives
declared_target_type(line) ==
    IF Contains(line, s_PROGRAMS) THEN "PROGRAM" ELSE "LIBRARY"

\* a first run that keeps every target that was built
keep_new_library_always(libs, library) == TRUE

\* process_makefile_am, first run: whether a target that was built is kept
keep_new_library(libs, library) == ~has_library(libs, library.canonic_name)

RECURSIVE add_libraries(_, _, _, _)
\* process_makefile_am, first run: the loop over library_names of one line
add_libraries(libs, names, line, directory) ==
    IF names = <<>> THEN libs
    ELSE Bind([l0 \in {Library(Head(names), directory)} |->
         Bind([library \in {
                        IF declared_target_type(line) = "PROGRAM"
                        THEN [l0 EXCEPT !.target_type = "PROGRAM",
                                        !.referred_name = l0.canonic_name]
                        ELSE l0
               } |->
            add_libraries(IF keep_new_library(libs, library)
                          THEN Append(libs, library) ELSE libs,
                          Tail(names), line, directory)])])

RECURSIVE first_run(_, _, _, _, _)
\* process_makefile_am, first run: parse out all the libraries
first_run(libs, lines, k, directory, excl) ==
    IF k > Len(lines) THEN libs
    ELSE Bind([line \in {Strip(lines[k])} |->
         Bind([process_it \in {
                           ~\E n \in 1..Len(excl) :
                               StartsWith(directory, excl[n]) /\ excl[n] # <<>>
               } |->
            IF StartsWith(line, <<"#">>) THEN first_run(libs, lines, k + 1, directory, excl)
            ELSE IF (Contains(line, s_LIBRARIES) \/ Contains(line, s_PROGRAMS)) /\ process_it
            THEN first_run(add_libraries(libs, From(Split(line), 2), line, directory),
                           lines, k + 1, directory, excl)
            ELSE first_run(libs, lines, k + 1, directory, excl)])])

RECURSIVE SplitOnStr(_, _)
\* s.split(p) for a non-empty str p
SplitOnStr(s, p) ==
    Bind([k \in {Find(s, p)} |->
       IF k = 0 THEN <<s>>
       ELSE <<SubSeq(s, 1, k - 1)>> \o SplitOnStr(SubSeq(s, k + Len(p), Len(s)), p)])

\* ''.join('%-1s' % item for item in line.split('\t ')): an empty item is
\* padded to one space
join_tab_space(line) ==
    Bind([items \in {SplitOnStr(line, sTabSpace)} |->
       Join(<<>>, [n \in 1..Len(items) |->
                      IF items[n] = <<>> THEN <<" ">> ELSE items[n]])])

RECURSIVE join_continuation(_, _, _)
\* while line.endswith('\\'): i += 1; line += content[i].strip()
\* [ok, line]; ok is FALSE when content[i] raises IndexError
join_continuation(lines, k, line) ==
    IF ~EndsWith(line, <<"\\">>) THEN [ok |-> TRUE, line |-> line]
    ELSE IF k + 1 > Len(lines) THEN [ok |-> FALSE, line |-> line]
    ELSE join_continuation(lines, k + 1, line \o Strip(lines[k + 1]))

\* the if_condition after the if / endif tests of one line: [ok, if_condition]
next_if_condition(line, if_condition) ==
    Bind([elements \in {Split(line)} |->
    Bind([c1 \in {
              IF StartsWith(line, sIf)
              THEN (IF Len(elements) < 2 THEN [ok |-> FALSE, c |-> if_condition]
                    ELSE [ok |-> TRUE, c |-> elements[2]])
              ELSE [ok |-> TRUE, c |-> if_condition]
          } |->
       IF StartsWith(line, sEndif) THEN [ok |-> c1.ok, c |-> <<>>] ELSE c1])])

\* library.condition += if_condition (when if_condition is not empty)
add_condition(library, if_condition) ==
    IF if_condition # <<>>
    THEN [library EXCEPT !.condition.chars = @ \o if_condition]
    ELSE library

\* a list attribute after  "+=" in line : attr += tokens / attr = tokens
assign_list(old, tokens, line) ==
    IF Contains(line, sPlusEq) THEN old \o tokens ELSE tokens

\* library.compiler_flags after  += defines / = defines
assign_flags(old, defines, line) ==
    IF Contains(line, sPlusEq) THEN old \o defines ELSE defines

\* the variable name of an assignment line
assignment_variable(elements) ==
    Bind([v \in {Strip(elements[1])} |->
       IF Contains(v, <<"+">>) THEN Strip(RemoveChars(v, {"+"})) ELSE v])

\* the text of a flags assignment: the line without the variable and the first =
flags_text(line) ==
    Strip(RemoveFirst(RemoveFirst(line, assignment_variable(SplitOn(line, "="))),
                      <<"=">>))

\* the attribute an assignment names: [attr, target]
assignment_target(variable) ==
    IF EndsWith(variable, s_SOURCES)
    THEN [attr |-> "SOURCES", target |-> DropLast(variable, Len(s_SOURCES))]
    ELSE IF EndsWith(variable, s_LDADD)
    THEN [attr |-> "LDADD", target |-> DropLast(variable, Len(s_LDADD))]
    ELSE IF EndsWith(variable, s_CFLAGS)
    THEN [attr |-> "FLAGS", target |-> DropLast(variable, Len(s_CFLAGS))]
    ELSE IF EndsWith(variable, s_CXXFLAGS) \/ EndsWith(variable, s_CPPFLAGS)
    THEN [attr |-> "FLAGS", target |-> DropLast(variable, Len(s_CXXFLAGS))]
    ELSE IF EndsWith(variable, s_LDFLAGS)
    THEN [attr |-> "LDFLAGS", target |-> DropLast(variable, Len(s_LDFLAGS))]
    ELSE [attr |-> "NONE", target |-> <<>>]

\* dirs_to_go_in after an assignment that no target used
subdirs_assignment(dirs_to_go_in, variable, value) ==
    IF variable = sSUBDIRS THEN value ELSE dirs_to_go_in

\* the library after an assignment to one of its attributes
assign_attribute(library, attr, value, line) ==
    IF attr = "SOURCES"
    THEN [library EXCEPT !.filelist = assign_list(@, Split(value), line)]
    ELSE IF attr = "LDADD"
    THEN [library EXCEPT !.link_with_libs = assign_list(@, Split(value), line)]
    ELSE IF attr = "FLAGS"
    THEN [library EXCEPT !.compiler_flags = assign_flags(@, flags_text(line), line)]
    ELSE [library EXCEPT !.linker_flags = assign_list(@, Split(value), line)]

\* if not used: an assignment that no library took; st as in assignment
assign_variable(st, variable, value) ==
    Bind([dv \in {st.defined_variables} |->
    Bind([st1 \in {[st EXCEPT !.dirs_to_go_in = subdirs_assignment(@, variable, value)]} |->
       IF Contains(variable, s_LIBRARIES) \/ Contains(variable, s_PROGRAMS)
       THEN st1
       ELSE IF ~HasKey(dv, variable)
       THEN [st1 EXCEPT !.heap = Append(@, Split(value)),
                        !.defined_variables =
                            Append(@, [key |-> variable,
                                       value |-> <<Len(st.heap) + 1>>,
                                       condition |-> <<st.if_condition>>])]
       ELSE [st1 EXCEPT !.heap = Append(@, Split(value)),
                        !.defined_variables[KeyIndex(dv, variable)] =
                            [@ EXCEPT !.value = Append(@, Len(st.heap) + 1),
                                      !.condition = Append(@, st.if_condition)]]])])

\* an assignment line of the second run, st = [libs, heap, if_condition,
\* defined_variables, libraries_in_this_file, dirs_to_go_in, ok]
assignment(st, line) ==
    Bind([elements \in {SplitOn(line, "=")} |->
    Bind([variable \in {assignment_variable(elements)} |->
    Bind([at \in {assignment_target(variable)} |->
    Bind([n \in {IF at.attr = "NONE" THEN 0
                 ELSE get_library_for_name(st.libs, at.target)} |->
       IF n # 0
       THEN [st EXCEPT !.libs[n] = assign_attribute(add_condition(@, st.if_condition),
                                                    at.attr, elements[2], line),
                       !.libraries_in_this_file = Append(@, at.target)]
       ELSE assign_variable(st, variable, elements[2])])])])])

RECURSIVE second_run(_, _, _)
\* process_makefile_am, next run: gather the attributes of the libraries
second_run(st, lines, k) ==
    IF k > Len(lines) \/ ~st.ok THEN st
    ELSE Bind([line \in {Strip(lines[k])} |->
         Bind([c \in {next_if_condition(line, st.if_condition)} |->
         Bind([st1 \in {[st EXCEPT !.if_condition = c.c]} |->
         Bind([j \in {join_continuation(lines, k, line)} |->
         Bind([full \in {join_tab_space(RemoveChars(j.line, {"\\"}))} |->
            IF StartsWith(line, <<"#">>) THEN second_run(st, lines, k + 1)
            ELSE IF ~c.ok THEN [st EXCEPT !.ok = FALSE]
            ELSE IF ~Contains(line, <<"=">>) THEN second_run(st1, lines, k + 1)
            ELSE IF ~j.ok THEN [st1 EXCEPT !.ok = FALSE]
            ELSE second_run(assignment(st1, full), lines, k + 1)])])])])])

\* d[k] = v on a dict of [key, value] records
DictSet(d, k, v) ==
    IF HasKey(d, k) THEN [d EXCEPT ![KeyIndex(d, k)].value = v]
    ELSE Append(d, [key |-> k, value |-> v])

RECURSIVE Unique(_)
\* the distinct elements of a list, in order of first occurrence
Unique(xs) ==
    IF xs = <<>> THEN <<>>
    ELSE Bind([r \in {Unique(SubSeq(xs, 1, Len(xs) - 1))} |->
         Bind([x \in {xs[Len(xs)]} |->
            IF \E n \in 1..Len(r) : r[n] = x THEN r ELSE Append(r, x)])])

RECURSIVE append_values(_, _, _, _)
\* for cond, value in zip(condition, value): the conditional_appends of one
\* library; s = [lib, heap]; a first value list is stored by reference,
\* a later one for the same condition is appended as one joined str
append_values(s, conds, cells, k) ==
    IF k > Len(conds) \/ k > Len(cells) THEN s
    ELSE Bind([cond_name \in {remove_garbage(conds[k])} |->
         Bind([ca \in {s.lib.conditional_appends} |->
         Bind([joined \in {Join(<<" ">>, s.heap[cells[k]])} |->
            append_values(
               IF \E n \in 1..Len(ca) : ca[n].key = cond_name
               THEN [s EXCEPT !.heap[ca[CHOOSE n \in 1..Len(ca) : ca[n].key = cond_name].cell]
                                  = Append(@, joined)]
               ELSE [s EXCEPT !.lib.conditional_appends =
                                  Append(@, [key |-> cond_name, cell |-> cells[k]])],
               conds, cells, k + 1)])])])

\* the post-pass for one variable and one library of this file; s = [libs, heap]
resolve_variable(s, dvar, lib_name) ==
    Bind([n \in {get_library_for_name(s.libs, lib_name)} |->
    Bind([library \in {s.libs[n]} |->
    Bind([inside_varname \in {<<"$", "(">> \o dvar.key \o <<")">>} |->
    Bind([found \in {
                 \E f \in 1..Len(library.filelist) :
                    Contains(library.filelist[f], inside_varname)
          } |->
    Bind([r \in {
             append_values([lib |-> library, heap |-> s.heap],
                           dvar.condition, dvar.value, 1)
          } |->
       IF found
       THEN [libs |-> [s.libs EXCEPT ![n] = r.lib], heap |-> r.heap]
       ELSE [libs |-> [s.libs EXCEPT ![n].just_variables =
                          DictSet(@, dvar.key, dvar.value)],
             heap |-> s.heap]])])])])])

RECURSIVE resolve_variables(_, _, _, _, _)
\* the post-pass: for var_name in defined_variables:
\*                    for defined_lib_name in set(libraries_in_this_file)
\* (the libraries are distinct, the order of the set does not change the result)
resolve_variables(s, dv, names, v, m) ==
    IF v > Len(dv) THEN s
    ELSE IF m > Len(names) THEN resolve_variables(s, dv, names, v + 1, 1)
    ELSE resolve_variables(resolve_variable(s, dv[v], names[m]), dv, names, v, m + 1)

RECURSIVE add_subdirectories(_, _, _, _)
\* for subdir in dirs_to_go_in.split(); r = [extra_dir, required_directories]
add_subdirectories(r, subdirs, current_directory, excl) ==
    IF subdirs = <<>> THEN r
    ELSE Bind([d \in {current_directory \o sSlash \o Head(subdirs)} |->
            add_subdirectories(
               IF ~should_exclude(excl, d)
               THEN [extra_dir |-> Append(r.extra_dir, Head(subdirs)),
                     required_directories |-> Append(r.required_directories, d)]
               ELSE r,
               Tail(subdirs), current_directory, excl)])

\* process_makefile_am(file) for a file that exists, with the given content;
\* g = [libraries, heap, extra_content, required_directories, ok]
process_makefile_am(g, file, lines, excl) ==
    Bind([current_directory \in {dirname(file)} |->
    Bind([libs1 \in {first_run(g.libraries, lines, 1, current_directory, excl)} |->
    Bind([st \in {
              second_run([libs |-> libs1, heap |-> g.heap, if_condition |-> <<>>,
                          defined_variables |-> <<>>,
                          libraries_in_this_file |-> <<>>,
                          dirs_to_go_in |-> <<>>, ok |-> TRUE], lines, 1)
          } |->
    Bind([s \in {
             resolve_variables([libs |-> st.libs, heap |-> st.heap],
                               st.defined_variables,
                               Unique(st.libraries_in_this_file), 1, 1)
          } |->
    Bind([r \in {
             add_subdirectories([extra_dir |-> <<>>,
                                 required_directories |-> g.required_directories],
                                Split(st.dirs_to_go_in), current_directory, excl)
          } |->
       IF should_exclude(excl, current_directory) THEN g
       ELSE IF ~st.ok
       THEN [g EXCEPT !.libraries = st.libs, !.heap = st.heap, !.ok = FALSE]
       ELSE IF st.dirs_to_go_in = <<>>
       THEN [g EXCEPT !.libraries = s.libs, !.heap = s.heap]
       ELSE [g EXCEPT !.libraries = s.libs, !.heap = s.heap,
                      !.extra_content = DictSet(@, current_directory, r.extra_dir),
                      !.required_directories = r.required_directories]])])])])])

\* os.path.isfile(makefile_am): the content of a Makefile.am of the project
HasFile(fs, path) == \E n \in 1..Len(fs) : fs[n].key = path

RECURSIVE process_config_files_loop(_, _, _, _, _)
\* process_config_files: for file in vec
process_config_files_loop(g, vec, wd, fs, excl) ==
    IF vec = <<>> \/ ~g.ok THEN g
    ELSE Bind([makefile_am \in {wd \o sSlash \o Head(vec) \o <<".", "a", "m">>} |->
            process_config_files_loop(
               IF HasFile(fs, makefile_am)
               THEN process_makefile_am(g, makefile_am,
                                        fs[KeyIndex(fs, makefile_am)].value, excl)
               ELSE g,
               Tail(vec), wd, fs, excl)])

\* process_config_files(line)
process_config_files(g, line, wd, fs, excl) ==
    Bind([s \in {remove_garbage(Strip(From(line, Len(sAC_CONFIG_FILES))))} |->
       process_config_files_loop(g, Split(s), wd, fs, excl)])

-----------------------------------------------------------------------------
(* Generation of the targets: process_libraries *)

\* a file system in which every path is a file
isfile_any(files, path) == TRUE

\* os.path.isfile(path) on a source file
isfile(files, path) == path \in files

\* filelist_to_string: one line per file of sorted(elements), a file that is
\* missing is commented out and reported; [lines, warn]
filelist_to_string(elements, source_directory, spacecount, files) ==
    Bind([sorted \in {SortedStrs(elements)} |->
    Bind([found \in {[n \in 1..Len(sorted) |->
                        isfile(files, source_directory \o sSlash \o sorted[n])]} |->
    Bind([missing \in {SelectSeq([n \in 1..Len(sorted) |-> n], LAMBDA n : ~found[n])} |->
       [lines |-> [n \in 1..Len(sorted) |->
                      [t |-> "file", file |-> sorted[n],
                       found |-> found[n], indent |-> spacecount]],
        warn |-> [n \in 1..Len(missing) |->
                     [t |-> "file_missing",
                      path |-> source_directory \o sSlash \o sorted[missing[n]]]]]])])])

RECURSIVE Flatten(_)
\* [item for sublist in lists for item in sublist]
Flatten(lists) ==
    IF lists = <<>> THEN <<>> ELSE Head(lists) \o Flatten(Tail(lists))

\* the value lists of library.just_variables[name]
just_variable(library, hp, name) ==
    Bind([jv \in {library.just_variables} |->
    Bind([cells \in {jv[KeyIndex(jv, name)].value} |->
       Flatten([n \in 1..Len(cells) |-> hp[cells[n]]])])])

RECURSIVE unfold_conditionals(_, _, _, _, _)
\* for cond_append in conditional_append: the $ items that name a just_variable
\* unfold to its files (the last one wins); r = [lines, warn]
unfold_conditionals(r, items, library, hp, files) ==
    IF items = <<>> THEN r
    ELSE Bind([nice_var_name \in {remove_garbage(Head(items))} |->
            unfold_conditionals(
               IF Contains(Head(items), <<"$">>) /\ HasKey(library.just_variables, nice_var_name)
               THEN Bind([f \in {filelist_to_string(
                                    just_variable(library, hp, nice_var_name),
                                    library.directory, 8, files)} |->
                       [lines |-> f.lines, warn |-> r.warn \o f.warn]])
               ELSE r,
               Tail(items), library, hp, files)])

\* the raw lines of "\n        ".join(conditional_append)
raw_lines(items) == [n \in 1..Len(items) |-> [t |-> "raw", text |-> items[n]]]

\* list(APPEND ${project}_SOURCES ... )
list_append(lines) == <<[t |-> "list_append"]>> \o lines \o <<[t |-> "list_end"]>>

\* if(name) ... endif()
if_block(name, lines) ==
    <<[t |-> "if", cond |-> name]>> \o lines \o <<[t |-> "endif"]>>

RECURSIVE conditional_options(_, _, _, _, _, _, _)
\* for opt_name in options: the blocks of the options whose define is cond;
\* r = [body, warn, condition_required, used_cond]
conditional_options(r, opts, k, cond, items, library, env) ==
    IF k > Len(opts) THEN r
    ELSE Bind([u \in {
                  unfold_conditionals([lines |-> <<>>, warn |-> <<>>], items,
                                      library, env.heap, env.files)
               } |->
            conditional_options(
               IF opts[k].define = cond
               THEN [body |-> r.body \o
                        if_block(opts[k].name,
                                 list_append(IF u.lines # <<>> THEN u.lines
                                             ELSE raw_lines(items))),
                     warn |-> r.warn \o u.warn,
                     condition_required |-> opts[k].name,
                     used_cond |-> TRUE]
               ELSE r,
               opts, k + 1, cond, items, library, env)])

\* one entry of library.conditional_appends; r = [body, warn, condition_required]
conditional_group(r, cond, items, library, opts, env) ==
    Bind([o \in {
             conditional_options([body |-> <<>>, warn |-> <<>>,
                                  condition_required |-> r.condition_required,
                                  used_cond |-> FALSE],
                                 opts, 1, cond, items, library, env)
          } |->
    Bind([u \in {
             unfold_conditionals([lines |-> <<>>, warn |-> <<>>], items,
                                 library, env.heap, env.files)
          } |->
    Bind([add_regardless \in {SelectSeq(items, LAMBDA x : ~Contains(x, <<"$">>))} |->
    Bind([f \in {filelist_to_string(add_regardless, library.directory, 8, env.files)} |->
       IF cond # <<>>
       THEN (IF o.used_cond
             THEN [body |-> r.body \o o.body, warn |-> r.warn \o o.warn,
                   condition_required |-> o.condition_required]
             ELSE [body |-> r.body \o if_block(cond, list_append(raw_lines(items))),
                   warn |-> r.warn,
                   condition_required |-> cond])
       ELSE [body |-> r.body \o list_append(u.lines \o f.lines),
             warn |-> r.warn \o u.warn \o f.warn,
             condition_required |-> r.condition_required]])])])])

RECURSIVE conditional_groups(_, _, _, _, _)
\* for cond in library.conditional_appends
conditional_groups(r, k, library, opts, env) ==
    IF k > Len(library.conditional_appends) THEN r
    ELSE conditional_groups(
            conditional_group(r, library.conditional_appends[k].key,
                              env.heap[library.conditional_appends[k].cell],
                              library, opts, env),
            k + 1, library, opts, env)

\* options[option].get_define() == library.condition: a str never equals a list
define_is_condition(option, condition) ==
    condition.kind = "str" /\ option.define = condition.chars

\* library.condition after the match of the option defines: the joined str
\* replaces the list when no option matched
condition_after_match(condition, condition_used) ==
    IF condition_used THEN condition
    ELSE [kind |-> "str", chars |-> condition.chars]

\* the sources of the library under its own condition;
\* [body, warn, condition, condition_required]
library_sources(library, opts, env, condition_required) ==
    Bind([f \in {filelist_to_string(library.filelist, library.directory, 4, env.files)} |->
    Bind([hits \in {SelectSeq(opts, LAMBDA o : define_is_condition(o, library.condition))} |->
    Bind([blocks \in {
                  Flatten([n \in 1..Len(hits) |->
                              if_block(hits[n].name, list_append(f.lines))])
          } |->
    Bind([warns \in {Flatten([n \in 1..Len(hits) |-> f.warn])} |->
       IF library.condition.chars # <<>>
       THEN (IF hits # <<>>
             THEN [body |-> blocks, warn |-> warns,
                   condition |-> condition_after_match(library.condition, TRUE),
                   condition_required |-> hits[Len(hits)].name]
             ELSE [body |-> if_block(library.condition.chars, list_append(f.lines)),
                   warn |-> f.warn,
                   condition |-> condition_after_match(library.condition, FALSE),
                   condition_required |-> library.condition.chars])
       ELSE [body |-> list_append(f.lines), warn |-> f.warn,
             condition |-> library.condition,
             condition_required |-> condition_required]])])])])

\* list.remove(x): the list without the first occurrence of x
remove_first(xs, x) ==
    Bind([hits \in {{n \in 1..Len(xs) : xs[n] = x}} |->
    Bind([m \in {IF hits = {} THEN 0 ELSE CHOOSE n \in hits : \A j \in hits : n <= j} |->
       IF m = 0 THEN xs ELSE SubSeq(xs, 1, m - 1) \o SubSeq(xs, m + 1, Len(xs))])])


RECURSIVE Replace(_, _, _)
\* s.replace(p, q) for a non-empty str p
Replace(s, p, q) ==
    Bind([k \in {Find(s, p)} |->
       IF k = 0 \/ Len(p) = 0 THEN s
       ELSE SubSeq(s, 1, k - 1) \o q \o Replace(SubSeq(s, k + Len(p), Len(s)), p, q)])

s_top_srcdir == <<"t","o","p","_","s","r","c","d","i","r">>
sCMAKE_SOURCE_DIR == <<"{","C","M","A","K","E","_","S","O","U","R","C","E","_","D","I","R","}">>
sDashI == <<"-","I">>
sDashL == <<"-","L">>
sDashl == <<"-","l">>
sLib == <<"l","i","b">>

\* "".join(library.compiler_flags).split()
compiler_flag_list(library) == Split(library.compiler_flags)

\* whether a flag names a variable
indirect_flag(flag) == Contains(flag, <<"$">>) \/ Contains(flag, <<"@">>)

RECURSIVE direct_flags(_)
\* final_flags: the flags that name no variable, each followed by a space
direct_flags(flags) ==
    IF flags = <<>> THEN <<>>
    ELSE (IF indirect_flag(Head(flags)) THEN <<>>
          ELSE replace_quotes(Head(flags)) \o <<" ">>)
         \o direct_flags(Tail(flags))

\* set_target_properties( name PROPERTIES COMPILE_FLAGS "flags" )
compile_flags(library) ==
    IF direct_flags(compiler_flag_list(library)) # <<>>
    THEN <<[t |-> "compile_flags", name |-> library.referred_name,
            flags |-> direct_flags(compiler_flag_list(library))]>>
    ELSE <<>>

\* re.search("\$\(.*\)", flag): the matched text, <<>> without a match
variable_reference(flag) ==
    Bind([k \in {Find(flag, <<"$", "(">>)} |->
    Bind([close \in {{j \in 1..Len(flag) : flag[j] = ")" /\ j > k + 1}} |->
       IF k = 0 \/ close = {} THEN <<>>
       ELSE SubSeq(flag, k, CHOOSE j \in close : \A i \in close : i <= j)])])

\* a step that leaves the flag in the list
work_flag_keeps(r, flag, cav) == r

\* one step of  for flag in to_work_with_flags; r = [work, final, hung]
work_flag(r, flag, cav) ==
    Bind([m \in {IF Contains(flag, <<"$">>) THEN variable_reference(flag) ELSE <<>>} |->
    Bind([desired_var \in {remove_garbage(m)} |->
       [work |-> remove_first(
                    IF m # <<>> /\ desired_var = s_top_srcdir
                    THEN Append(r.work, sCMAKE_SOURCE_DIR) ELSE r.work,
                    flag),
        final |-> IF m # <<>> /\ desired_var # s_top_srcdir /\ HasKey(cav, desired_var)
                  THEN r.final \o cav[KeyIndex(cav, desired_var)].value
                  ELSE r.final,
        hung |-> r.hung]])])

RECURSIVE work_pass(_, _, _)
\* for flag in to_work_with_flags, over the list as the steps change it
work_pass(r, i, cav) ==
    IF i > Len(r.work) THEN r
    ELSE work_pass(work_flag(r, r.work[i], cav), i + 1, cav)

\* the passes of the while loop after which a run counts as hung
MaxPasses == 6

RECURSIVE resolve_flags(_, _, _)
\* while not done: one pass, done when no flag of the list holds a $;
\* r = [work, final, hung], hung when the loop is not done after MaxPasses passes
resolve_flags(r, cav, passes) ==
    IF passes = MaxPasses THEN [r EXCEPT !.hung = TRUE]
    ELSE Bind([r1 \in {work_pass(r, 1, cav)} |->
            IF \E n \in DOMAIN r1.work : Contains(r1.work[n], <<"$">>)
            THEN resolve_flags(r1, cav, passes + 1)
            ELSE r1])

\* the loop over the flags of a library that name a variable
resolved_flags(library, cav) ==
    resolve_flags([work |-> SelectSeq(compiler_flag_list(library), indirect_flag),
                   final |-> <<>>, hung |-> FALSE], cav, 0)

\* the flags the variables of configure.ac contribute
indirect_flags(library, cav) == resolved_flags(library, cav).final

RECURSIVE include_directories_of(_)
\* include_directories: the -I words of the contributed flags
include_directories_of(final_flags) ==
    IF final_flags = <<>> THEN <<>>
    ELSE [n \in 1..Len(SelectSeq(Split(Strip(RemoveChars(Head(final_flags), {"'"}))),
                                 LAMBDA w : StartsWith(w, sDashI))) |->
             Replace(SelectSeq(Split(Strip(RemoveChars(Head(final_flags), {"'"}))),
                               LAMBDA w : StartsWith(w, sDashI))[n],
                     <<"$", "(">> \o s_top_srcdir \o <<")">>,
                     <<"$">> \o sCMAKE_SOURCE_DIR)]
         \o include_directories_of(Tail(final_flags))

\* target_include_directories( name PRIVATE dirs )
target_include_directories(library, cav) ==
    IF include_directories_of(indirect_flags(library, cav)) # <<>>
    THEN <<[t |-> "target_include_directories", name |-> library.referred_name,
            dirs |-> [n \in 1..Len(include_directories_of(indirect_flags(library, cav))) |->
                        RemoveAll(include_directories_of(indirect_flags(library, cav))[n],
                                  sDashI)]]>>
    ELSE <<>>

\* make_nice_library_name
make_nice_library_name(link_name) ==
    Bind([name \in {RemoveChars(link_name, {"'"})} |->
       IF StartsWith(name, sDashL) THEN name
       ELSE Bind([last \in {SplitOn(name, "/")[Len(SplitOn(name, "/"))]} |->
            Bind([stem \in {
                     IF Contains(last, <<".">>)
                     THEN (IF StartsWith(SplitOn(last, ".")[1], sLib)
                           THEN From(SplitOn(last, ".")[1], 3)
                           ELSE SplitOn(last, ".")[1])
                     ELSE last
                  } |->
               IF StartsWith(stem, sDashl) THEN From(stem, 2) ELSE stem])])])

\* the names one word of link_with_libs contributes: [name, fix]
link_names(link_name, library, cav, hp) ==
    Bind([target_link_lib \in {make_nice_library_name(link_name)} |->
       IF StartsWith(target_link_lib, <<"$">>)
       THEN (IF HasKey(library.just_variables, remove_garbage(target_link_lib))
             THEN Bind([cells \in {library.just_variables[
                                      KeyIndex(library.just_variables,
                                               remove_garbage(target_link_lib))].value} |->
                     Bind([names \in {Flatten([n \in 1..Len(cells) |-> hp[cells[n]]])} |->
                        [n \in 1..Len(names) |->
                           [name |-> make_nice_library_name(names[n]), fix |-> FALSE]]])])
             ELSE <<>>)
       ELSE IF StartsWith(target_link_lib, <<"@">>)
       THEN (IF HasKey(cav, RemoveChars(target_link_lib, {"@"}))
             THEN Bind([names \in {
                           SelectSeq(
                              [n \in 1..Len(Split(Flatten(cav[KeyIndex(cav,
                                     RemoveChars(target_link_lib, {"@"}))].value))) |->
                                 make_nice_library_name(
                                    Split(Flatten(cav[KeyIndex(cav,
                                       RemoveChars(target_link_lib, {"@"}))].value))[n])],
                              LAMBDA w : ~StartsWith(w, sDashL))
                        } |->
                     [n \in 1..Len(names) |-> [name |-> names[n], fix |-> FALSE]]])
             ELSE <<[name |-> target_link_lib, fix |-> TRUE]>>)
       ELSE <<[name |-> target_link_lib, fix |-> FALSE]>>])

\* target_link_libraries( name libs ), and the warnings for the unknown ones;
\* [body, warn]
target_link_libraries(library, cav, hp) ==
    IF library.link_with_libs = <<>> THEN [body |-> <<>>, warn |-> <<>>]
    ELSE Bind([libs \in {Flatten([n \in 1..Len(library.link_with_libs) |->
                            link_names(library.link_with_libs[n], library, cav, hp)])} |->
            [body |-> <<[t |-> "target_link_libraries", name |-> library.referred_name,
                         libs |-> libs]>>,
             warn |-> [n \in 1..Len(SelectSeq(libs, LAMBDA l : l.fix)) |->
                         [t |-> "link_unknown",
                          name |-> SelectSeq(libs, LAMBDA l : l.fix)[n].name,
                          directory |-> library.directory]]]])

\* add_library ( ... ) / add_executable( ... )
creation_command(library) ==
    IF library.target_type = "LIBRARY"
    THEN [t |-> "add_library", name |-> library.referred_name, type |-> library.type]
    ELSE [t |-> "add_executable", name |-> library.name]

\* the body process_libraries generates for one library;
\* [body, warn, library]
library_content(library, opts, env) ==
    Bind([g \in {
             conditional_groups([body |-> <<>>, warn |-> <<>>,
                                 condition_required |-> <<>>],
                                1, library, opts, env)
          } |->
    Bind([s \in {library_sources(library, opts, env, g.condition_required)} |->
    Bind([condition_required \in {
                              IF s.condition.chars # <<>> THEN s.condition.chars
                              ELSE s.condition_required
          } |->
    Bind([head \in {
                <<[t |-> "comment", name |-> library.name],
                  [t |-> "set_project", name |-> library.referred_name]>>
          } |->
    Bind([link \in {target_link_libraries(library, env.cav, env.heap)} |->
    Bind([target \in {
                <<creation_command(library)>>
                \o compile_flags(library)
                \o target_include_directories(library, env.cav)
                \o link.body
          } |->
       [body |-> head \o g.body \o s.body \o
                 (IF condition_required # <<>>
                  THEN if_block(condition_required, target)
                  ELSE target),
        warn |-> g.warn \o s.warn \o link.warn,
        library |-> [library EXCEPT !.condition = s.condition]]])])])])])])

\* cmake_files[directory] with one more library content (CMakeFile created
\* when the directory has none)
add_library_content(cfs, directory, body, name) ==
    IF HasKey(cfs, directory)
    THEN [cfs EXCEPT ![KeyIndex(cfs, directory)] =
             [@ EXCEPT !.contained_libraries_content = Append(@, body),
                       !.libraries = Append(@, name)]]
    ELSE Append(cfs, [key |-> directory,
                              contained_libraries_content |-> <<body>>,
                              libraries |-> <<name>>,
                              extra_content |-> <<>>])

RECURSIVE process_libraries(_, _, _, _)
\* process_libraries(); r = [libraries, cmake_files, diag]
process_libraries(r, k, opts, env) ==
    IF k > Len(r.libraries) THEN r
    ELSE Bind([c \in {library_content(r.libraries[k], opts, env)} |->
            process_libraries(
               [libraries |-> [r.libraries EXCEPT ![k] = c.library],
                cmake_files |-> add_library_content(r.cmake_files,
                                                    r.libraries[k].directory,
                                                    c.body, r.libraries[k].canonic_name),
                diag |-> r.diag \o c.warn],
               k + 1, opts, env)])

RECURSIVE process_cmake_file_directories(_, _, _)
\* process_cmake_file_directories()
process_cmake_file_directories(cfs, extra, k) ==
    IF k > Len(extra) THEN cfs
    ELSE Bind([cf \in {
                   IF HasKey(cfs, extra[k].key) THEN cfs
                   ELSE Append(cfs, [key |-> extra[k].key,
                                             contained_libraries_content |-> <<>>,
                                             libraries |-> <<>>,
                                             extra_content |-> <<>>])
               } |->
            process_cmake_file_directories(
               [cf EXCEPT ![KeyIndex(cf, extra[k].key)].extra_content = extra[k].value],
               extra, k + 1)])

-----------------------------------------------------------------------------
(* process_configure_ac: the scan of configure.ac *)

\* global working_directory (-d)
working_directory == <<"w">>

\* previous_line and line_distance at the head of one iteration
lookback(cur, prev, dist) ==
    IF Len(cur) > 1 /\ Contains(cur, <<"$">>) THEN [prev |-> cur, dist |-> 0]
    ELSE IF dist < 3
    THEN (IF Contains(cur, <<"$">>) THEN [prev |-> cur, dist |-> 0]
          ELSE [prev |-> prev, dist |-> dist + 1])
    ELSE [prev |-> <<>>, dist |-> dist + 1]

\* a plain name=value line appends the value to config_ac_variables
variable_definition(cav, line) ==
    Bind([j \in {SkipWhile(line, 1, Letters \cup Digits \cup {"_"}, TRUE)} |->
    Bind([j2 \in {SkipWhile(line, j, Spaces, TRUE)} |->
    Bind([varname \in {SubSeq(line, 1, j - 1)} |->
    Bind([var_value \in {From(line, j2)} |->
       IF Contains(line, <<"=">>) /\ line[1] \in Letters /\ line[j2] = "="
       THEN (IF HasKey(cav, varname)
             THEN [cav EXCEPT ![KeyIndex(cav, varname)].value = Append(@, var_value)]
             ELSE Append(cav, [key |-> varname, value |-> <<var_value>>]))
       ELSE cav])])])])

RECURSIVE accumulate(_, _, _)
\* the lines of one macro, up to the line that balances the parentheses:
\* [ok, full_line, current_line]; ok is FALSE when content[i] raises IndexError
accumulate(lines, k, full_line) ==
    IF k > Len(lines) THEN [ok |-> FALSE, full_line |-> full_line, current_line |-> <<>>]
    ELSE Bind([cl \in {Strip(lines[k])} |->
         Bind([f \in {full_line \o cl \o <<" ">>} |->
            IF count_parentheses(f) = 0
            THEN [ok |-> TRUE, full_line |-> f, current_line |-> cl]
            ELSE accumulate(lines, k + 1, f)])])

\* one iteration of the for loop of process_configure_ac
ScanLine ==
    /\ pc = "scan"
    /\ ci <= Len(content)
    /\ \E lb \in {lookback(current_line, previous_line, line_distance)},
          cur \in {Strip(content[ci])},
          next \in {IF ci + 1 > Len(content) THEN "exact" ELSE "scan"} :
       \E method \in {processable_line(cur)}, acc \in {accumulate(content, ci, <<>>)} :
          /\ previous_line' = lb.prev
          /\ line_distance' = lb.dist
          /\ ci' = ci + 1
          /\ IF StartsWith(cur, <<"#">>) \/ cur = <<>>
             THEN /\ current_line' = cur
                  /\ pc' = next
                  /\ UNCHANGED <<confVars, makeVars>>
             ELSE /\ config_ac_variables' = variable_definition(config_ac_variables, cur)
                  /\ IF method = <<>>
                     THEN /\ current_line' = cur
                          /\ pc' = next
                          /\ UNCHANGED <<options, temp_defines, makeVars>>
                     ELSE IF ~acc.ok
                     THEN /\ current_line' = cur
                          /\ pc' = "crashed"
                          /\ UNCHANGED <<options, temp_defines, makeVars>>
                     ELSE /\ current_line' = acc.current_line
                          /\ IF method = DropLast(sAC_ARG_ENABLE, 1)
                             THEN \E arg \in {process_argument(options, acc.full_line)} :
                                  /\ options' = arg.options
                                  /\ pc' = IF arg.ok THEN next ELSE "crashed"
                                  /\ UNCHANGED <<temp_defines, makeVars>>
                             ELSE IF method = DropLast(sAM_CONDITIONAL, 1)
                             THEN /\ options' = process_conditional(options, acc.full_line)
                                  /\ pc' = next
                                  /\ UNCHANGED <<temp_defines, makeVars>>
                             ELSE IF method = DropLast(sAC_DEFINE, 1)
                             THEN /\ temp_defines' =
                                       process_a_define(temp_defines, acc.full_line \o lb.prev)
                                  /\ pc' = next
                                  /\ UNCHANGED <<options, makeVars>>
                             ELSE \E g \in {process_config_files(
                                               [libraries |-> libraries, heap |-> heap,
                                                extra_content |-> extra_content,
                                                required_directories |-> required_directories,
                                                ok |-> TRUE],
                                               acc.full_line, working_directory,
                                               makefiles, exclude_directories)} :
                                  /\ libraries' = g.libraries
                                  /\ heap' = g.heap
                                  /\ extra_content' = g.extra_content
                                  /\ required_directories' = g.required_directories
                                  /\ pc' = IF g.ok THEN next ELSE "crashed"
                                  /\ UNCHANGED <<options, temp_defines>>
    /\ UNCHANGED <<content, inputVars, genVars>>

-----------------------------------------------------------------------------
(* process_configure_ac: the defines are merged into the options *)

\* whether the exact pass binds a define to an option
exact_match(option, define) ==
    option.define = define.name \/ option.name = define.option_name

\* an exact pass that goes on to the next define after a match
exact_never_breaks(enter) == TRUE

\* whether the exact pass goes on to the next define after a match
exact_continues(enter) == ~enter

RECURSIVE exact_option(_, _)
\* for temp_define_name in temp_defines, for one option; r = [option, defines]
exact_option(r, k) ==
    IF k > Len(r.defines) THEN r
    ELSE Bind([d \in {r.defines[k]} |->
         Bind([by_define \in {r.option.define = d.name} |->
         Bind([by_name \in {r.option.name = d.option_name} |->
         Bind([enter \in {exact_match(r.option, d)} |->
         Bind([r1 \in {
                   IF enter
                   THEN [option |-> [r.option EXCEPT
                                        !.define = IF by_name THEN d.name ELSE @,
                                        !.define_description = d.description,
                                        !.define_value = set_define_value(d.value)],
                         defines |-> [r.defines EXCEPT ![k].used = 1]]
                   ELSE r
               } |->
            IF exact_continues(enter) THEN exact_option(r1, k + 1) ELSE r1])])])])])

RECURSIVE exact_pass(_, _)
\* for option_name in options; r = [options, defines]
exact_pass(r, n) ==
    IF n > Len(r.options) THEN r
    ELSE Bind([e \in {exact_option([option |-> r.options[n], defines |-> r.defines], 1)} |->
            exact_pass([options |-> [r.options EXCEPT ![n] = e.option],
                        defines |-> e.defines], n + 1)])

ResolveExact ==
    /\ pc = "exact"
    /\ (\E r \in {exact_pass([options |-> options, defines |-> temp_defines], 1)} :
          /\ options' = r.options
          /\ temp_defines' = r.defines)
    /\ pc' = "fuzzy"
    /\ UNCHANGED <<scanVars, config_ac_variables, inputVars, makeVars, genVars>>

\* whether the fuzzy pass attaches a define to an option
fuzzy_match(td_upper, opt_upper) ==
    \/ similar_above_half(td_upper, opt_upper)
    \/ Contains(opt_upper, td_upper)
    \/ Contains(td_upper, opt_upper)

\* a fuzzy pass that is offered every define
fuzzy_offered_all(define) == TRUE

\* whether a define is offered to the fuzzy pass
fuzzy_offered(define) == define.used = 0

RECURSIVE fuzzy_define(_, _, _)
\* for option_name in options, for one unused define
fuzzy_define(opts, n, name) ==
    IF n > Len(opts) THEN opts
    ELSE fuzzy_define(
            IF fuzzy_match(Upper(name), Upper(opts[n].key))
            THEN [opts EXCEPT ![n].extra_defines = Append(@, name)]
            ELSE opts,
            n + 1, name)

RECURSIVE fuzzy_pass(_, _)
\* for temp_define_name in temp_defines; r = [options, defines]
fuzzy_pass(r, k) ==
    IF k > Len(r.defines) THEN r
    ELSE Bind([opts \in {fuzzy_define(r.options, 1, r.defines[k].key)} |->
            fuzzy_pass(
               IF fuzzy_offered(r.defines[k])
               THEN [options |-> opts,
                     defines |-> IF opts # r.options
                                 THEN [r.defines EXCEPT ![k].used = 1]
                                 ELSE r.defines]
               ELSE r,
               k + 1)])

ResolveFuzzy ==
    /\ pc = "fuzzy"
    /\ (\E r \in {fuzzy_pass([options |-> options, defines |-> temp_defines], 1)} :
          /\ options' = r.options
          /\ temp_defines' = r.defines)
    /\ pc' = "toplevel"
    /\ UNCHANGED <<scanVars, config_ac_variables, inputVars, makeVars, genVars>>

-----------------------------------------------------------------------------
(* convert: the top level CMakeLists.txt *)

sHAVE_ == <<"H","A","V","E","_">>

\* sorted(options.items(), key=lambda x: x[1].get_name()), each one finalized
sorted_options(opts) ==
    Bind([ps \in {SortedPairs([n \in 1..Len(opts) |-> [k |-> opts[n].name, v |-> opts[n]]])} |->
       [n \in 1..Len(ps) |-> finalize(ps[n].v)]])

\* the option( ... ) line of one option
option_line(o) ==
    [t |-> "option", name |-> o.name, description |-> o.description,
     status |-> o.status]

\* the #define lines of the extra defines of one option
extra_define_lines(o) ==
    [n \in 1..Len(o.extra_defines) |->
        [t |-> "define", kind |-> "extra",
         symbol |-> remove_garbage(o.extra_defines[n]), value |-> <<>>]]

\* the if( ) ... endif( ) block that appends the #define lines of one option
option_define_block(o) ==
    if_block(o.name,
        <<[t |-> "define_comment", text |-> remove_garbage(o.define_description)],
          IF Len(o.define) >= 1
          THEN [t |-> "define", kind |-> "bound", symbol |-> o.define,
                value |-> replace_quotes(remove_garbage(o.define_value))]
          ELSE [t |-> "define", kind |-> "guess", symbol |-> sHAVE_ \o o.name,
                value |-> <<>>]>>
        \o extra_define_lines(o))

\* a top level file that writes out every define regardless of an option
written_regardless_all(define) == TRUE

\* whether a define is written out regardless of an option
written_regardless(define) == define.used = 0

\* the description and #define lines of the temp_defines that are still not used
unused_define_lines(defs) ==
    Bind([left \in {SelectSeq(defs, written_regardless)} |->
       Flatten([n \in 1..Len(left) |->
           <<[t |-> "define_comment", text |-> remove_garbage(left[n].description)],
             [t |-> "define", kind |-> "unused", symbol |-> left[n].key,
              value |-> replace_quotes(remove_garbage(left[n].value))]>>])])

\* the text convert writes to working_directory/CMakeLists.txt
top_level_text(opts, defs) ==
    Bind([so \in {sorted_options(opts)} |->
       <<[t |-> "cmake_minimum_required"]>>
       \o [n \in 1..Len(so) |-> option_line(so[n])]
       \o <<[t |-> "config_h"]>>
       \o Flatten([n \in 1..Len(so) |-> option_define_block(so[n])])
       \o <<[t |-> "unused_defines"]>>
       \o unused_define_lines(defs)
       \o <<[t |-> "include_directories"], [t |-> "add_definitions"]>>])

\* convert: finalize the options and write the top level file (opened "w")
TopLevel ==
    /\ pc = "toplevel"
    /\ options' = [n \in 1..Len(options) |-> finalize(options[n])]
    /\ disk' = DictSet(disk, working_directory, top_level_text(options, temp_defines))
    /\ pc' = "libraries"
    /\ UNCHANGED <<scanVars, temp_defines, config_ac_variables, inputVars,
                   makeVars, cmake_files, diag>>

\* convert: process_libraries(); the run hangs when the loop over the flags
\* of a library does not end
ProcessLibraries ==
    /\ pc = "libraries"
    /\ IF \E n \in DOMAIN libraries : resolved_flags(libraries[n], config_ac_variables).hung
       THEN /\ pc' = "hung"
            /\ UNCHANGED <<libraries, cmake_files, diag>>
       ELSE /\ (\E r \in {
                       process_libraries([libraries |-> libraries,
                                          cmake_files |-> cmake_files, diag |-> diag],
                                         1, options,
                                         [heap |-> heap, files |-> source_files,
                                          cav |-> config_ac_variables])
               } :
                 /\ libraries' = r.libraries
                 /\ cmake_files' = r.cmake_files
                 /\ diag' = r.diag)
            /\ pc' = "directories"
    /\ UNCHANGED <<scanVars, confVars, inputVars, heap, extra_content,
                   required_directories, disk>>

\* convert: process_cmake_file_directories()
ProcessCmakeFileDirectories ==
    /\ pc = "directories"
    /\ cmake_files' = process_cmake_file_directories(cmake_files, extra_content, 1)
    /\ pc' = "remove"
    /\ UNCHANGED <<scanVars, confVars, inputVars, makeVars, disk, diag>>

\* whether the removal loop removes the CMakeLists.txt of a directory
removes_file_all(directory) == TRUE

\* convert: the old CMakeLists.txt of the top directory is kept
removes_file(directory) == working_directory # directory

\* convert: remove the CMakeLists.txt of every directory of cmake_files
RemoveOld ==
    /\ pc = "remove"
    /\ disk' = SelectSeq(disk, LAMBDA f : ~(HasKey(cmake_files, f.key) /\ removes_file(f.key)))
    /\ pc' = "write"
    /\ UNCHANGED <<scanVars, confVars, inputVars, makeVars, cmake_files, diag>>

\* the text written for one CMakeFile: the extra content, then the libraries
cmake_file_text(cfile) ==
    [n \in 1..Len(cfile.extra_content) |->
        [t |-> "add_subdirectory", name |-> cfile.extra_content[n]]]
    \o Flatten(cfile.contained_libraries_content)

\* open(path, "a").write(text)
append_file(d, directory, text) ==
    IF HasKey(d, directory)
    THEN [d EXCEPT ![KeyIndex(d, directory)].value = @ \o text]
    ELSE Append(d, [key |-> directory, value |-> text])

RECURSIVE write_cmake_files(_, _, _)
\* for cmakefile_name in cmake_files; r = [disk, required_directories]
write_cmake_files(r, cfs, k) ==
    IF k > Len(cfs) THEN r
    ELSE write_cmake_files(
            [disk |-> append_file(r.disk, cfs[k].key, cmake_file_text(cfs[k])),
             required_directories |-> remove_first(r.required_directories, cfs[k].key)],
            cfs, k + 1)

\* convert: write the CMakeLists.txt of every directory of cmake_files
WriteFiles ==
    /\ pc = "write"
    /\ (\E r \in {
                write_cmake_files([disk |-> disk,
                                   required_directories |-> required_directories],
                                  cmake_files, 1)
        } :
          /\ disk' = r.disk
          /\ required_directories' = r.required_directories)
    /\ pc' = "fallback"
    /\ UNCHANGED <<scanVars, confVars, inputVars, libraries, heap, extra_content,
                   cmake_files, diag>>

\* the last component of a path
basename(path) ==
    Bind([parts \in {SplitOn(path, "/")} |-> parts[Len(parts)]])

\* glob.glob(req_dir + "/*" + ext + "*"): the names of the files of the directory
glob(files, req_dir, ext) ==
    {basename(f) : f \in {x \in files :
        /\ dirname(x) = req_dir
        /\ Contains(basename(x), ext)
        /\ ~StartsWith(basename(x), <<".">>)}}

\* generate_default_cmake: the text of a default CMakeLists.txt
default_cmake_text(req_dir, files) ==
    <<[t |-> "cmake_minimum_required"],
      [t |-> "default_library", project |-> basename(req_dir),
       sources |-> glob(files, req_dir, <<".", "c">>),
       headers |-> glob(files, req_dir, <<".", "h">>)]>>

\* the directories that get a default CMakeLists.txt
final_list(required, excl) == SelectSeq(required, LAMBDA x : ~should_exclude(excl, x))

RECURSIVE generate_defaults(_, _, _)
\* for req_dir in final_list: generate_default_cmake (opened "w")
generate_defaults(d, dirs, files) ==
    IF dirs = <<>> THEN d
    ELSE generate_defaults(DictSet(d, Head(dirs), default_cmake_text(Head(dirs), files)),
                           Tail(dirs), files)

\* convert: the required directories that did not get a CMakeLists.txt
Fallback ==
    /\ pc = "fallback"
    /\ disk' = generate_defaults(disk, final_list(required_directories, exclude_directories),
                                 source_files)
    /\ diag' = diag \o <<[t |-> "creating_defaults"]>>
                    \o [n \in 1..Len(final_list(required_directories, exclude_directories)) |->
                          [t |-> "default_cmake",
                           path |-> final_list(required_directories, exclude_directories)[n]]]
    /\ pc' = "done"
    /\ UNCHANGED <<scanVars, confVars, inputVars, makeVars, cmake_files>>

Next ==
    \/ ScanLine
    \/ ResolveExact
    \/ ResolveFuzzy
    \/ TopLevel
    \/ ProcessLibraries
    \/ ProcessCmakeFileDirectories
    \/ RemoveOld
    \/ WriteFiles
    \/ Fallback

-----------------------------------------------------------------------------
(* The inputs of the runs that are checked *)

\* AC_ARG_ENABLE(foo, [ --enable-foo use foo])
cArgFoo == <<"A","C","_","A","R","G","_","E","N","A","B","L","E","(","f","o","o",","," ","["," ","-","-","e","n","a","b","l","e","-","f","o","o"," ","u","s","e"," ","f","o","o","]",")">>

\* AM_CONDITIONAL(WITH_FOO, test "$foo" = yes)
cCondFoo == <<"A","M","_","C","O","N","D","I","T","I","O","N","A","L","(","W","I","T","H","_","F","O","O",","," ","t","e","s","t"," ","\"","$","f","o","o","\""," ","="," ","y","e","s",")">>

\* AM_CONDITIONAL(WITH_FOO, test "$FOO" = yes)
cCondFOO == <<"A","M","_","C","O","N","D","I","T","I","O","N","A","L","(","W","I","T","H","_","F","O","O",","," ","t","e","s","t"," ","\"","$","F","O","O","\""," ","="," ","y","e","s",")">>

\* AC_DEFINE(WITH_FOO, [1], [d])
cDefWithFoo == <<"A","C","_","D","E","F","I","N","E","(","W","I","T","H","_","F","O","O",","," ","[","1","]",","," ","[","d","]",")">>

\* AC_DEFINE(HAVE_FOO_BAR, 1, [x])
cDefHaveFooBar == <<"A","C","_","D","E","F","I","N","E","(","H","A","V","E","_","F","O","O","_","B","A","R",","," ","1",","," ","[","x","]",")">>

\* AC_ARG_ENABLE(foo-bar, [ --enable-foo-bar fb], [x=yes])
cArgFooBar == <<"A","C","_","A","R","G","_","E","N","A","B","L","E","(","f","o","o","-","b","a","r",","," ","["," ","-","-","e","n","a","b","l","e","-","f","o","o","-","b","a","r"," ","f","b","]",","," ","[","x","=","y","e","s","]",")">>

\* AC_DEFINE(QUX, 2, [q])
cDefQux == <<"A","C","_","D","E","F","I","N","E","(","Q","U","X",","," ","2",","," ","[","q","]",")">>

\* AC_CONFIG_FILES([Makefile])
cConfigFiles == <<"A","C","_","C","O","N","F","I","G","_","F","I","L","E","S","(","[","M","a","k","e","f","i","l","e","]",")">>

\* noinst_LIBRARIES = libx.a
mLibX == <<"n","o","i","n","s","t","_","L","I","B","R","A","R","I","E","S"," ","="," ","l","i","b","x",".","a">>

\* libx_a_SOURCES = a.c b.c
mSourcesX == <<"l","i","b","x","_","a","_","S","O","U","R","C","E","S"," ","="," ","a",".","c"," ","b",".","c">>

\* AC_CONFIG_FILES([Makefile sub/Makefile])
cConfigFilesSub == <<"A","C","_","C","O","N","F","I","G","_","F","I","L","E","S","(","[","M","a","k","e","f","i","l","e"," ","s","u","b","/","M","a","k","e","f","i","l","e","]",")">>

\* bin_PROGRAMS = libx_a
mProgX == <<"b","i","n","_","P","R","O","G","R","A","M","S"," ","="," ","l","i","b","x","_","a">>

\* lib_LIBRARIES = liby.so $(D)
mLibYD == <<"l","i","b","_","L","I","B","R","A","R","I","E","S"," ","="," ","l","i","b","y",".","s","o"," ","$","(","D",")">>

\* if WITH_FOO
mIfFoo == <<"i","f"," ","W","I","T","H","_","F","O","O">>

\* endif
mEndif == <<"e","n","d","i","f">>

\* SUBDIRS = sub
mSubdirs == <<"S","U","B","D","I","R","S"," ","="," ","s","u","b">>

\* SUBDIRS += ex
mSubdirsMore == <<"S","U","B","D","I","R","S"," ","+","="," ","e","x">>

\* AC_ARG_ENABLE(foo, help)
cArgFooBare == <<"A","C","_","A","R","G","_","E","N","A","B","L","E","(","f","o","o",","," ","h","e","l","p",")">>

\* the lines configure.ac is made of
ConfPool == {cArgFoo, cCondFoo, cCondFOO, cDefWithFoo, cDefHaveFooBar, cArgFooBar, cDefQux, cConfigFiles,
             cArgFooBare}

\* the largest number of lines of configure.ac
MaxConfLines == 3

\* the Makefile.am of the top directory: one static library of two sources
MinimalMakefile == <<mLibX, mSourcesX>>

pathMakefileAm == working_directory \o <<"/","M","a","k","e","f","i","l","e",".","a","m">>
pathA == working_directory \o <<"/","a",".","c">>
pathB == working_directory \o <<"/","b",".","c">>

\* the globals and the locals at the start of process_configure_ac
InitFresh ==
    /\ pc = "scan"
    /\ ci = 1
    /\ current_line = <<>>
    /\ previous_line = <<>>
    /\ line_distance = 0
    /\ options = <<>>
    /\ temp_defines = <<>>
    /\ config_ac_variables = <<>>
    /\ libraries = <<>>
    /\ heap = <<>>
    /\ extra_content = <<>>
    /\ required_directories = <<>>
    /\ cmake_files = <<>>
    /\ diag = <<>>

\* the state at the start of process_configure_ac in a source tree that holds
\* no CMakeLists.txt
InitRun ==
    /\ InitFresh
    /\ old_files = {}
    /\ disk = <<>>

\* any configure.ac of up to MaxConfLines lines, over the minimal source tree
Init ==
    /\ content \in UNION {[1..n -> ConfPool] : n \in 1..MaxConfLines}
    /\ makefiles = <<[key |-> pathMakefileAm, value |-> MinimalMakefile]>>
    /\ source_files = {pathA}
    /\ exclude_directories = <<>>
    /\ InitRun

Spec == Init /\ [][Next]_vars

\* the lines the Makefile.am of the top directory is made of
MakePool == {mLibX, mProgX, mLibYD, mSourcesX, mIfFoo, mEndif, mSubdirs, mSubdirsMore}

\* the largest number of lines of the Makefile.am of the top directory
MaxMakeLines == 3

pathSub == working_directory \o <<"/","s","u","b">>
pathEx == working_directory \o <<"/","e","x">>
pathSubMakefileAm == pathSub \o <<"/","M","a","k","e","f","i","l","e",".","a","m">>

\* the values of -e that are tried
ExcludeChoices == {<<>>, <<pathSub>>, <<working_directory>>}

\* a configure.ac that lists the Makefile of the top directory and of sub,
\* any Makefile.am of up to MaxMakeLines lines in the top directory, and a
\* Makefile.am in sub that declares a program
InitMake ==
    /\ content = <<cArgFoo, cCondFoo, cConfigFilesSub>>
    /\ \E lines \in UNION {[1..n -> MakePool] : n \in 1..MaxMakeLines} :
          makefiles = <<[key |-> pathMakefileAm, value |-> lines],
                        [key |-> pathSubMakefileAm, value |-> <<mProgX>>]>>
    /\ source_files = {pathA}
    /\ exclude_directories \in ExcludeChoices
    /\ InitRun

SpecMake == InitMake /\ [][Next]_vars

\* D = b.c
mVarD == <<"D"," ","="," ","b",".","c">>

\* D += c.c
mVarDMore == <<"D"," ","+","="," ","c",".","c">>

\* libx_a_SOURCES = a.c $(D)
mSourcesXD == <<"l","i","b","x","_","a","_","S","O","U","R","C","E","S"," ","="," ","a",".","c"," ","$","(","D",")">>

\* D += c.c d.c
mVarDTwo == <<"D"," ","+","="," ","c",".","c"," ","d",".","c">>

\* the lines that follow the declaration of the library in the Makefile.am
GroupPool == {mIfFoo, mEndif, mVarD, mVarDMore, mVarDTwo, mSourcesXD}

\* the largest number of lines that follow the declaration of the library
MaxGroupLines == 4

\* the configure.ac files that are tried: with and without an Option for WITH_FOO
GroupConfigures == {<<cArgFoo, cCondFoo, cConfigFiles>>, <<cDefQux, cConfigFiles>>}

\* a Makefile.am that declares the library x and goes on with any lines of
\* GroupPool: variables, conditions and sources that refer to a variable
InitGroups ==
    /\ content \in GroupConfigures
    /\ \E lines \in UNION {[1..n -> GroupPool] : n \in 1..MaxGroupLines} :
          makefiles = <<[key |-> pathMakefileAm, value |-> <<mLibX>> \o lines]>>
    /\ source_files = {pathA}
    /\ exclude_directories = <<>>
    /\ InitRun

SpecGroups == InitGroups /\ [][Next]_vars

\* if
mIfOnly == <<"i","f">>

\* libx_a_SOURCES = a.c \
mContinued == <<"l","i","b","x","_","a","_","S","O","U","R","C","E","S"," ","="," ","a",".","c"," ","\\">>

\* libx_a_SOURCES =
mEmptyAssign == <<"l","i","b","x","_","a","_","S","O","U","R","C","E","S"," ","=">>

\* #noinst_LIBRARIES = liby.a
mComment == <<"#","n","o","i","n","s","t","_","L","I","B","R","A","R","I","E","S"," ","="," ","l","i","b","y",".","a">>

\* the lines of a Makefile.am that is not well formed
LinePool == {mLibX, mSourcesX, mIfFoo, mIfOnly, mContinued, mEmptyAssign, mComment}

\* any Makefile.am of up to MaxMakeLines lines of LinePool in the top directory
InitLines ==
    /\ content = <<cArgFoo, cCondFoo, cConfigFiles>>
    /\ \E lines \in UNION {[1..n -> LinePool] : n \in 1..MaxMakeLines} :
          makefiles = <<[key |-> pathMakefileAm, value |-> lines]>>
    /\ source_files = {pathA}
    /\ exclude_directories = <<>>
    /\ InitRun

SpecLines == InitLines /\ [][Next]_vars

\* AC_ARG_ENABLE(foo,
cArgHead == <<"A","C","_","A","R","G","_","E","N","A","B","L","E","(","f","o","o",",">>

\* [ --enable-foo use foo])
cArgTail == <<"["," ","-","-","e","n","a","b","l","e","-","f","o","o"," ","u","s","e"," ","f","o","o","]",")">>

\* AC_ARG_ENABLE(foo, [ --enable-foo use foo)
cArgUnclosed == <<"A","C","_","A","R","G","_","E","N","A","B","L","E","(","f","o","o",","," ","["," ","-","-","e","n","a","b","l","e","-","f","o","o"," ","u","s","e"," ","f","o","o",")">>

\* the lines of a configure.ac with macros that span lines or are not well formed
ScanPool == {cArgFooBar, cArgHead, cArgTail, cArgUnclosed, cCondFoo, cDefQux}

\* any configure.ac of up to MaxConfLines lines of ScanPool
InitScan ==
    /\ content \in UNION {[1..n -> ScanPool] : n \in 1..MaxConfLines}
    /\ makefiles = <<[key |-> pathMakefileAm, value |-> MinimalMakefile]>>
    /\ source_files = {pathA}
    /\ exclude_directories = <<>>
    /\ InitRun

SpecScan == InitScan /\ [][Next]_vars

\* SUBDIRS = sub sub
mSubdirsTwice == <<"S","U","B","D","I","R","S"," ","="," ","s","u","b"," ","s","u","b">>

\* the lines of the Makefile.am of the top directory in a tree with old output
StalePool == {mLibX, mSubdirs, mSubdirsMore, mSubdirsTwice}

\* the text of a CMakeLists.txt that an earlier run left behind
old_text == <<[t |-> "old"]>>

\* the directories of the source tree, in a fixed order
DirectoryList == <<working_directory, pathSub, pathEx>>

\* a source tree in which any of the directories holds a CMakeLists.txt of an
\* earlier run, with any Makefile.am of up to MaxMakeLines lines of StalePool
\* in the top directory and a Makefile.am in sub that declares a program
InitStale ==
    /\ content = <<cArgFoo, cCondFoo, cConfigFilesSub>>
    /\ \E lines \in UNION {[1..n -> StalePool] : n \in 1..MaxMakeLines} :
          makefiles = <<[key |-> pathMakefileAm, value |-> lines],
                        [key |-> pathSubMakefileAm, value |-> <<mProgX>>]>>
    /\ source_files = {pathA}
    /\ exclude_directories \in {<<>>, <<pathSub>>}
    /\ old_files \in SUBSET {DirectoryList[n] : n \in DOMAIN DirectoryList}
    /\ disk = [n \in 1..Len(SelectSeq(DirectoryList, LAMBDA d : d \in old_files)) |->
                 [key |-> SelectSeq(DirectoryList, LAMBDA d : d \in old_files)[n],
                  value |-> old_text]]
    /\ InitFresh

SpecStale == InitStale /\ [][Next]_vars

\* libx_a_CFLAGS = -DA
mFlagsA == <<"l","i","b","x","_","a","_","C","F","L","A","G","S"," ","="," ","-","D","A">>

\* libx_a_CFLAGS += -DB -DC
mFlagsMore == <<"l","i","b","x","_","a","_","C","F","L","A","G","S"," ","+","="," ","-","D","B"," ","-","D","C">>

\* libx_a_CXXFLAGS = $(V) -I$(top_srcdir)/inc
mFlagsIndirect == <<"l","i","b","x","_","a","_","C","X","X","F","L","A","G","S"," ","="," ","$","(","V",")"," ","-","I","$","(","t","o","p","_","s","r","c","d","i","r",")","/","i","n","c">>

\* libx_a_SOURCES += b.c
mSourcesMore == <<"l","i","b","x","_","a","_","S","O","U","R","C","E","S"," ","+","="," ","b",".","c">>

\* libx_a_LDADD = liby.a -lm
mLdaddY == <<"l","i","b","x","_","a","_","L","D","A","D","D"," ","="," ","l","i","b","y",".","a"," ","-","l","m">>

\* libx_a_LDADD += -lz
mLdaddMore == <<"l","i","b","x","_","a","_","L","D","A","D","D"," ","+","="," ","-","l","z">>

\* libx_a_LDFLAGS = -s
mLdflagsS == <<"l","i","b","x","_","a","_","L","D","F","L","A","G","S"," ","="," ","-","s">>

\* libx_a_LDFLAGS += -t
mLdflagsMore == <<"l","i","b","x","_","a","_","L","D","F","L","A","G","S"," ","+","="," ","-","t">>

\* V=-Iinc -O2
cVarV == <<"V","=","-","I","i","n","c"," ","-","O","2">>

\* the assignments to the attributes of the library libx.a
FlagPool == {mFlagsA, mFlagsMore, mFlagsIndirect, mSourcesX, mSourcesMore,
             mLdaddY, mLdaddMore, mLdflagsS, mLdflagsMore}

MaxFlagLines == 3

\* a Makefile.am that declares the library libx.a and assigns to its attributes
\* in up to MaxFlagLines lines of FlagPool, with a configure.ac that defines
\* the variable V or does not
InitFlags ==
    /\ content \in {<<cConfigFiles>>, <<cVarV, cConfigFiles>>}
    /\ \E lines \in UNION {[1..n -> FlagPool] : n \in 1..MaxFlagLines} :
          makefiles = <<[key |-> pathMakefileAm, value |-> <<mLibX>> \o lines]>>
    /\ source_files = {pathA}
    /\ exclude_directories = <<>>
    /\ InitRun

SpecFlags == InitFlags /\ [][Next]_vars

\* libx_a_CFLAGS = $(V) $(V) -I$(top_srcdir)/i
mFlagsTwice == <<"l","i","b","x","_","a","_","C","F","L","A","G","S"," ","="," ","$","(","V",")"," ","$","(","V",")"," ","-","I","$","(","t","o","p","_","s","r","c","d","i","r",")","/","i">>

\* libx_a_CFLAGS = -I$(top_srcdir)/i $(U)
mFlagsTop == <<"l","i","b","x","_","a","_","C","F","L","A","G","S"," ","="," ","-","I","$","(","t","o","p","_","s","r","c","d","i","r",")","/","i"," ","$","(","U",")">>

\* libx_a_CFLAGS = @W@ $(V) -DA
mFlagsAt == <<"l","i","b","x","_","a","_","C","F","L","A","G","S"," ","="," ","@","W","@"," ","$","(","V",")"," ","-","D","A">>

\* libx_a_CFLAGS += $(V)
mFlagsMoreV == <<"l","i","b","x","_","a","_","C","F","L","A","G","S"," ","+","="," ","$","(","V",")">>

\* libx_a_LDADD = $(L) @W@ -lm
mLdaddRefs == <<"l","i","b","x","_","a","_","L","D","A","D","D"," ","="," ","$","(","L",")"," ","@","W","@"," ","-","l","m">>

\* L = liby.a
mVarL == <<"L"," ","="," ","l","i","b","y",".","a">>

\* V=$(V) -Iinc
cVarSelf == <<"V","=","$","(","V",")"," ","-","I","i","n","c">>

\* W=-lw -Lx
cVarW == <<"W","=","-","l","w"," ","-","L","x">>

\* assignments that refer to variables: of configure.ac, of the Makefile.am,
\* defined or not
IndirectPool == {mFlagsTwice, mFlagsTop, mFlagsAt, mFlagsMoreV, mLdaddRefs, mVarL}

MaxIndirectLines == 3

\* a Makefile.am that declares the library libx.a and refers to variables in
\* up to MaxIndirectLines lines of IndirectPool, with a configure.ac that
\* defines no variable, the variables V and W, or V by itself
InitIndirect ==
    /\ content \in {<<cConfigFiles>>, <<cVarV, cVarW, cConfigFiles>>,
                    <<cVarSelf, cConfigFiles>>}
    /\ \E lines \in UNION {[1..n -> IndirectPool] : n \in 1..MaxIndirectLines} :
          makefiles = <<[key |-> pathMakefileAm, value |-> <<mLibX>> \o lines]>>
    /\ source_files = {pathA}
    /\ exclude_directories = <<>>
    /\ InitRun

SpecIndirect == InitIndirect /\ [][Next]_vars

\* libx_a_CFLAGS = -DA \
mFlagsContinued == <<"l","i","b","x","_","a","_","C","F","L","A","G","S"," ","="," ","-","D","A"," ","\\">>

\* -DNAME=1
mDefineName == <<"-","D","N","A","M","E","=","1">>

\* if WITH_BAR
mIfBar == <<"i","f"," ","W","I","T","H","_","B","A","R">>

\* ifdir = x
mIfdir == <<"i","f","d","i","r"," ","="," ","x">>

\* statements of the second run: conditions, assignments, an assignment that
\* goes on in the next line, a variable whose name begins with if
StatementPool == {mFlagsContinued, mDefineName, mIfFoo, mIfBar, mEndif, mSourcesX, mIfdir}

MaxStatementLines == 4

\* a Makefile.am that declares the library libx.a and goes on with up to
\* MaxStatementLines lines of StatementPool
InitStatements ==
    /\ content = <<cArgFoo, cCondFoo, cConfigFiles>>
    /\ \E lines \in UNION {[1..n -> StatementPool] : n \in 1..MaxStatementLines} :
          makefiles = <<[key |-> pathMakefileAm, value |-> <<mLibX>> \o lines]>>
    /\ source_files = {pathA}
    /\ exclude_directories = <<>>
    /\ InitRun

SpecStatements == InitStatements /\ [][Next]_vars

\* bin_PROGRAMS = my-prog
mProgMy == <<"b","i","n","_","P","R","O","G","R","A","M","S"," ","="," ","m","y","-","p","r","o","g">>

\* bin_PROGRAMS = prog
mProgPlain == <<"b","i","n","_","P","R","O","G","R","A","M","S"," ","="," ","p","r","o","g">>

\* my_prog_CFLAGS = -DA $(V)
mMyFlags == <<"m","y","_","p","r","o","g","_","C","F","L","A","G","S"," ","="," ","-","D","A"," ","$","(","V",")">>

\* my_prog_LDADD = -lm
mMyLdadd == <<"m","y","_","p","r","o","g","_","L","D","A","D","D"," ","="," ","-","l","m">>

\* my_prog_SOURCES = a.c
mMySources == <<"m","y","_","p","r","o","g","_","S","O","U","R","C","E","S"," ","="," ","a",".","c">>

\* prog_CFLAGS = -DA $(V)
mPlainFlags == <<"p","r","o","g","_","C","F","L","A","G","S"," ","="," ","-","D","A"," ","$","(","V",")">>

\* the declarations of a target: a library, a program, a program whose name
\* is no identifier
TargetPool == {mLibX, mProgPlain, mProgMy}

\* assignments to the attributes of the targets
AttributePool == {mMyFlags, mMyLdadd, mMySources, mPlainFlags, mFlagsA}

MaxAttributeLines == 3

\* a Makefile.am that declares one target of TargetPool and assigns to
\* attributes in up to MaxAttributeLines lines of AttributePool
InitTargets ==
    /\ content = <<cVarV, cConfigFiles>>
    /\ \E head \in TargetPool :
       \E lines \in UNION {[1..n -> AttributePool] : n \in 1..MaxAttributeLines} :
          makefiles = <<[key |-> pathMakefileAm, value |-> <<head>> \o lines]>>
    /\ source_files = {pathA}
    /\ exclude_directories = <<>>
    /\ InitRun

SpecTargets == InitTargets /\ [][Next]_vars

-----------------------------------------------------------------------------
(* The properties that are checked *)

\* the text of the CMakeLists.txt of a directory, empty when there is none
file_text(directory) ==
    IF HasKey(disk, directory) THEN disk[KeyIndex(disk, directory)].value ELSE <<>>

\* the elements of a sequence
Range(xs) == {xs[n] : n \in 1..Len(xs)}

\* whether line i of a text lies inside an if( ) ... endif( ) guard
guarded(text, i) ==
    Cardinality({j \in 1..(i - 1) : text[j].t = "if"})
        > Cardinality({j \in 1..(i - 1) : text[j].t = "endif"})

\* the condition of the guard that line i of a text lies in: the last if before it
guard_of(text, i) ==
    text[CHOOSE j \in 1..(i - 1) :
            /\ text[j].t = "if"
            /\ \A m \in (j + 1)..(i - 1) : text[m].t # "if"].cond

\* whether line i of a text is a #define of a symbol
defines_symbol(text, i, symbol) == text[i].t = "define" /\ text[i].symbol = symbol

sFOO == <<"F","O","O">>
sWITH_FOO == <<"W","I","T","H","_","F","O","O">>
sAC == <<"a",".","c">>
sBC == <<"b",".","c">>

\* the minimal fixture: the argument foo bound to WITH_FOO by a conditional, and
\* one Makefile.am with noinst_LIBRARIES = libx.a, libx_a_SOURCES = a.c b.c,
\* a.c present and b.c absent
MinimalFixture ==
    /\ content = <<cArgFoo, cCondFoo, cConfigFiles>>
    /\ makefiles = <<[key |-> pathMakefileAm, value |-> MinimalMakefile]>>
    /\ source_files = {pathA}

\* C1: the run over the minimal fixture writes an option line for FOO with
\* status OFF, a block guarded by FOO that defines WITH_FOO, add_library of x
\* as STATIC, a.c as a source line, b.c as a commented-out "file not found"
\* line, and prints exactly one diagnostic, for the missing b.c
C1_RoundTrip ==
    (MinimalFixture /\ pc = "done") =>
        \E text \in {file_text(working_directory)} :
            /\ \E i \in DOMAIN text :
                  /\ text[i].t = "option"
                  /\ text[i].name = sFOO
                  /\ text[i].status = sOFF
            /\ \E i \in DOMAIN text :
                  /\ defines_symbol(text, i, sWITH_FOO)
                  /\ guarded(text, i)
                  /\ guard_of(text, i) = sFOO
            /\ \E i \in DOMAIN text :
                  text[i] = [t |-> "add_library", name |-> <<"x">>, type |-> "STATIC"]
            /\ \E i \in DOMAIN text :
                  text[i].t = "file" /\ text[i].file = sAC /\ text[i].found
            /\ \E i \in DOMAIN text :
                  text[i].t = "file" /\ text[i].file = sBC /\ ~text[i].found
            /\ \A i \in DOMAIN text :
                  text[i].t = "file" => text[i].file \in {sAC, sBC}
            /\ \E n \in DOMAIN diag :
                  /\ diag[n] = [t |-> "file_missing", path |-> pathB]
                  /\ \A m \in DOMAIN diag : diag[m].t = "file_missing" => m = n

\* C1 (witness): the run over the minimal fixture is finished and has written
\* the build file of the directory and reported a missing file
C1_RoundTripDone ==
    /\ MinimalFixture
    /\ pc = "done"
    /\ file_text(working_directory) # <<>>
    /\ diag # <<>>

\* whether a directory matches a prefix given with -e
excluded(directory) ==
    \E n \in DOMAIN exclude_directories : StartsWith(directory, exclude_directories[n])

\* the Makefile.am files that are parsed, in the order of AC_CONFIG_FILES: those
\* of the directories that are not excluded
parsed_makefiles == SelectSeq(makefiles, LAMBDA m : ~excluded(dirname(m.key)))

\* the targets one line of a Makefile.am declares: the tokens after the = of a
\* line that holds _LIBRARIES or _PROGRAMS
line_declarations(line) ==
    IF Contains(line, s_LIBRARIES) \/ Contains(line, s_PROGRAMS)
    THEN [n \in 1..(Len(Split(line)) - 2) |->
             [raw |-> Split(line)[n + 2], program |-> Contains(line, s_PROGRAMS)]]
    ELSE <<>>

\* the canonical identifier of a declared name
declared_identifier(raw) == canonicalize(RemoveChars(raw, {"$", "(", ")"}))

\* the target declarations of all parsed Makefile.am files, in parsing order,
\* each with its canonical identifier
Declarations ==
    Flatten([m \in DOMAIN parsed_makefiles |->
        Flatten([k \in DOMAIN parsed_makefiles[m].value |->
            [n \in DOMAIN line_declarations(parsed_makefiles[m].value[k]) |->
                [raw |-> line_declarations(parsed_makefiles[m].value[k])[n].raw,
                 program |-> line_declarations(parsed_makefiles[m].value[k])[n].program,
                 identifier |-> declared_identifier(
                                   line_declarations(parsed_makefiles[m].value[k])[n].raw)]]])])

\* whether a target has the kind its declaration asks for: an executable for
\* _PROGRAMS; else a static library for a name that ends in .a or holds a $,
\* and a dynamic library for any other name
kind_as_declared(library, declaration) ==
    IF declaration.program THEN library.target_type = "PROGRAM"
    ELSE /\ library.target_type = "LIBRARY"
         /\ library.type =
               IF Contains(declaration.raw, <<"$">>) \/ EndsWith(declaration.raw, sDotA)
               THEN "STATIC" ELSE "DYNAMIC"

\* C2 (as stated): after Pass 1 every target has the kind of every declaration
\* of its canonical identifier, also when the identifier is declared more than once
C2_KindOfEveryDeclaration ==
    pc \notin {"scan", "crashed"} =>
        \E D \in {Declarations} :
            \A n \in DOMAIN libraries, k \in DOMAIN D :
                D[k].identifier = libraries[n].canonic_name
                    => kind_as_declared(libraries[n], D[k])

\* C2 (amended): after Pass 1 every declared canonical identifier has exactly
\* one target, and the target has the kind of the first declaration of its
\* identifier in parsing order; later declarations of the identifier are ignored
C2_KindOfFirstDeclaration ==
    pc \notin {"scan", "crashed"} =>
        \E D \in {Declarations} :
            /\ \A n \in DOMAIN libraries :
                  \E k \in DOMAIN D :
                     /\ D[k].identifier = libraries[n].canonic_name
                     /\ \A j \in 1..(k - 1) : D[j].identifier # libraries[n].canonic_name
                     /\ kind_as_declared(libraries[n], D[k])
            /\ \A k \in DOMAIN D :
                  \E n \in DOMAIN libraries : libraries[n].canonic_name = D[k].identifier
            /\ \A n, m \in DOMAIN libraries :
                  libraries[n].canonic_name = libraries[m].canonic_name => n = m

\* C2 (witness): Pass 1 is over, an identifier was declared as a library and
\* then as a program, and the collection holds a program, a static, a dynamic
\* and a dependent library
C2_EveryKindDeclared ==
    /\ pc = "exact"
    /\ \E D \in {Declarations} :
          \E j, k \in DOMAIN D :
             /\ j < k
             /\ D[j].identifier = D[k].identifier
             /\ ~D[j].program
             /\ D[k].program
    /\ \E n \in DOMAIN libraries : libraries[n].target_type = "PROGRAM"
    /\ \E n \in DOMAIN libraries : libraries[n].dependant
    /\ \E n \in DOMAIN libraries :
          libraries[n].target_type = "LIBRARY" /\ libraries[n].type = "DYNAMIC"

\* the canonical name of an option name: uppercased, - replaced by _
canonical_name(name) == Upper(ReplaceChar(name, "-", "_"))

\* the argument declarations of configure.ac: the canonical name, the
\* description and the status each AC_ARG_ENABLE line declares
ArgumentDeclarations ==
    {[name |-> canonical_name(UpTo(Strip(From(content[k], Len(sAC_ARG_ENABLE))), {","})),
      description |-> argument_description(Strip(From(content[k], Len(sAC_ARG_ENABLE)))).description,
      status |-> IF Contains(content[k], sYes) THEN sON ELSE sOFF] :
        k \in {j \in DOMAIN content : StartsWith(content[j], sAC_ARG_ENABLE)}}

\* the conditional bindings of configure.ac: the canonical name of the variable
\* each AM_CONDITIONAL line refers to, and the symbol it binds
ConditionalBindings ==
    {[name |-> canonical_name(bound_option_of(Strip(From(content[k], Len(sAM_CONDITIONAL))))),
      symbol |-> UpTo(Strip(From(content[k], Len(sAM_CONDITIONAL))), {","})] :
        k \in {j \in DOMAIN content : StartsWith(content[j], sAM_CONDITIONAL)}}

\* the Options of the registry for a canonical name
options_named(name) == {n \in DOMAIN options : canonical_name(options[n].key) = name}

\* C3: after the scan, a canonical name that is declared by an argument and
\* referred to by a conditional, in either order, has a single Option, with a
\* description and status of an argument declaration and the symbol of a
\* conditional binding of that name
C3_MergeComplete ==
    pc = "exact" =>
        \A a \in ArgumentDeclarations, c \in ConditionalBindings :
            a.name = c.name =>
                /\ Cardinality(options_named(a.name)) = 1
                /\ \A n \in options_named(a.name) :
                      /\ \E b \in ArgumentDeclarations :
                            /\ b.name = a.name
                            /\ options[n].description = b.description
                            /\ options[n].status = b.status
                      /\ \E d \in ConditionalBindings :
                            d.name = a.name /\ options[n].define = d.symbol

\* whether the exact pass takes a Define for an Option: the symbol is the
\* bound symbol of the Option, or the derived variable is its name
define_matches(option, define) ==
    option.define = define.name \/ option.name = define.option_name

\* the first Define of the registry that matches an Option, 0 when none does
first_matching_define(option) ==
    IF \E k \in DOMAIN temp_defines : define_matches(option, temp_defines[k])
    THEN CHOOSE k \in DOMAIN temp_defines :
            /\ define_matches(option, temp_defines[k])
            /\ \A j \in 1..(k - 1) : ~define_matches(option, temp_defines[j])
    ELSE 0

\* a value without its square brackets
unbracketed(value) ==
    IF \E k \in DOMAIN value : value[k] = "[" THEN RemoveChars(value, {"[", "]"}) ELSE value

\* C4 (as stated): after the exact pass every Define whose symbol is the bound
\* symbol of an Option, or whose derived variable is the canonical name of an
\* Option, is marked used and the Option has its description and value, also
\* when several Defines match the same Option
C4_EveryMatchingDefine ==
    pc = "fuzzy" =>
        \A k \in DOMAIN temp_defines, n \in DOMAIN options :
            (\/ options[n].define = temp_defines[k].name
             \/ canonical_name(options[n].key) = temp_defines[k].option_name)
                => /\ temp_defines[k].used = 1
                   /\ options[n].define_description = temp_defines[k].description
                   /\ options[n].define_value = temp_defines[k].value

\* C4 (amended): after the exact pass, for every Option that a Define matches,
\* the first such Define of the registry is marked used, is the bound symbol of
\* the Option, and the Option has its description and its value without the
\* square brackets; no other Define is marked used by this pass
C4_FirstMatchingDefine ==
    pc = "fuzzy" =>
        /\ \A n \in DOMAIN options :
              \E k \in {first_matching_define(options[n])} :
                 k # 0 =>
                    /\ temp_defines[k].used = 1
                    /\ options[n].define = temp_defines[k].name
                    /\ options[n].define_description = temp_defines[k].description
                    /\ options[n].define_value = unbracketed(temp_defines[k].value)
        /\ \A k \in DOMAIN temp_defines :
              temp_defines[k].used = 1 <=>
                 \E n \in DOMAIN options : first_matching_define(options[n]) = k

\* C4 (witness): the exact pass is over, two Defines match one Option, the
\* first one, whose value is bracketed, is used and the second one is not
C4_TwoDefinesMatch ==
    /\ pc = "fuzzy"
    /\ \E n \in DOMAIN options, j, k \in DOMAIN temp_defines :
          /\ j < k
          /\ define_matches(options[n], temp_defines[j])
          /\ define_matches(options[n], temp_defines[k])
          /\ temp_defines[j].used = 1
          /\ temp_defines[j].value # unbracketed(temp_defines[j].value)
          /\ temp_defines[k].used = 0

\* whether the uppercased symbol of a Define contains, or is contained in, the
\* uppercased name of an Option
contains_either_way(define, option) ==
    \/ Contains(Upper(define.name), Upper(option.name))
    \/ Contains(Upper(option.name), Upper(define.name))

sHAVE_FOO_BAR == <<"H","A","V","E","_","F","O","O","_","B","A","R">>
sFOO_BAR == <<"F","O","O","_","B","A","R">>

\* C5: the fuzzy pass marks every Define that the exact pass left unused, and
\* whose uppercased symbol contains or is contained in the uppercased name of
\* an Option, as used and lists it among the extra defines of that Option; a
\* Define the exact pass marked used is attached to no Option
C5_FuzzyAttach ==
    [][pc = "fuzzy" =>
          \A k \in DOMAIN temp_defines :
             /\ temp_defines[k].used = 0 =>
                   \A n \in DOMAIN options :
                      contains_either_way(temp_defines[k], options[n]) =>
                         /\ temp_defines'[k].used = 1
                         /\ temp_defines[k].name \in Range(options'[n].extra_defines)
             /\ temp_defines[k].used = 1 =>
                   \A n \in DOMAIN options :
                      temp_defines[k].name \notin Range(options'[n].extra_defines)]_vars

\* C5 (witness): the fuzzy pass is over, HAVE_FOO_BAR is used and is an extra
\* define of the Option FOO_BAR, and a Define that the exact pass used, whose
\* symbol contains the name of its Option, is among no extra defines
C5_HaveFooBarAttached ==
    /\ pc = "toplevel"
    /\ \E n \in DOMAIN options, k \in DOMAIN temp_defines :
          /\ options[n].name = sFOO_BAR
          /\ temp_defines[k].name = sHAVE_FOO_BAR
          /\ temp_defines[k].used = 1
          /\ options[n].define # sHAVE_FOO_BAR
          /\ sHAVE_FOO_BAR \in Range(options[n].extra_defines)

\* C6: in the top level file a Define is written outside every guard exactly
\* when it is still unused after both passes, and a used Define is written in
\* the guard of an Option that it is the bound symbol or an extra define of
C6_NoDefineLost ==
    pc = "libraries" =>
        \E text \in {file_text(working_directory)} :
            \A k \in DOMAIN temp_defines :
                /\ temp_defines[k].used = 0 <=>
                      \E i \in DOMAIN text :
                         /\ defines_symbol(text, i, temp_defines[k].name)
                         /\ ~guarded(text, i)
                /\ temp_defines[k].used = 1 =>
                      \E i \in DOMAIN text, n \in DOMAIN options :
                         /\ defines_symbol(text, i, temp_defines[k].name)
                         /\ guarded(text, i)
                         /\ guard_of(text, i) = options[n].name
                         /\ \/ options[n].define = temp_defines[k].name
                            \/ temp_defines[k].name \in Range(options[n].extra_defines)

\* C6 (witness): the top level file is written with one Define that the fuzzy
\* pass attached to an Option and one that is still unused
C6_AttachedAndUnused ==
    /\ pc = "libraries"
    /\ \E k, m \in DOMAIN temp_defines, n \in DOMAIN options :
          /\ temp_defines[k].used = 1
          /\ temp_defines[k].name \in Range(options[n].extra_defines)
          /\ temp_defines[m].used = 0

\* the text that is written for every directory of cmake_files
generated_text(cfs) ==
    [n \in 1..Len(cfs) |-> [key |-> cfs[n].key, value |-> cmake_file_text(cfs[n])]]

\* the libraries and cmake_files after process_libraries() and
\* process_cmake_file_directories() ran once more with the given cmake_files
generated_again(cfs) ==
    Bind([r \in {
             process_libraries([libraries |-> libraries, cmake_files |-> cfs,
                                diag |-> <<>>],
                               1, options, [heap |-> heap, files |-> source_files,
                                   cav |-> config_ac_variables])
          } |->
       [libraries |-> r.libraries,
        cmake_files |-> process_cmake_file_directories(r.cmake_files, extra_content, 1)]])

\* C7: when generation has run, a second run of process_libraries and of the
\* assembly of the directories over the same libraries, options and extra
\* content leaves the text of every directory as the first run made it
C7_SecondRunSameText ==
    pc = "remove" =>
        generated_text(generated_again(cmake_files).cmake_files) = generated_text(cmake_files)

\* the steps of convert that generate output
GenerationSteps == {"toplevel", "libraries", "directories", "remove", "write", "fallback"}

\* C8: no step of generation changes a field of an Option, a field of a
\* library (its condition included) or the list of required directories
C8_GenerationKeepsInputs ==
    [][(pc \in GenerationSteps) =>
          (/\ options' = options
           /\ libraries' = libraries
           /\ required_directories' = required_directories)]_vars

\* the directories one line of a Makefile.am names in an assignment to SUBDIRS
line_subdirs(line) ==
    IF Len(Split(line)) > 2 /\ Split(line)[1] = sSUBDIRS
    THEN SubSeq(Split(line), 3, Len(Split(line)))
    ELSE <<>>

\* the directories the SUBDIRS lines of a Makefile.am name
subdirs_named(lines) == Range(Flatten([k \in DOMAIN lines |-> line_subdirs(lines[k])]))

\* the directories the SUBDIRS line of a Makefile.am that comes last names
last_subdirs_named(lines) ==
    Bind([ks \in {{k \in DOMAIN lines : line_subdirs(lines[k]) # <<>>}} |->
       IF ks = {} THEN {}
       ELSE Range(line_subdirs(lines[CHOOSE k \in ks : \A j \in ks : j <= k]))])

\* whether a child directory that a Makefile.am of the parent names is treated
\* as SUBDIRS asks: registered as required once the Makefile.am is parsed, and
\* at the end added as a subdirectory in the file of the parent and holding a
\* default file when no CMakeFile was made for it
subdirectory_honoured(parent, child) ==
    /\ pc = "exact" => (parent \o sSlash \o child) \in Range(required_directories)
    /\ pc = "done" =>
          /\ [t |-> "add_subdirectory", name |-> child] \in Range(file_text(parent))
          /\ ~HasKey(cmake_files, parent \o sSlash \o child) =>
                file_text(parent \o sSlash \o child)
                   = default_cmake_text(parent \o sSlash \o child, source_files)

\* C9: every child directory that any SUBDIRS line of a parsed Makefile.am
\* names, and that is not excluded, is registered as required, is added as a
\* subdirectory in the output of the parent and gets a default file when it
\* has no CMakeFile
C9_EverySubdirsLine ==
    \A m \in DOMAIN parsed_makefiles :
        \A child \in subdirs_named(parsed_makefiles[m].value) :
            ~excluded(dirname(parsed_makefiles[m].key) \o sSlash \o child) =>
                subdirectory_honoured(dirname(parsed_makefiles[m].key), child)

\* the directories of the source tree
Directories == {working_directory, pathSub, pathEx}

\* whether a directory has no library, no CMakeFile, no add_subdirectory
\* queued for it in its parent and no registration as a required directory
unregistered(d) ==
    /\ \A n \in DOMAIN libraries : libraries[n].directory # d
    /\ ~HasKey(cmake_files, d)
    /\ \A n \in DOMAIN extra_content :
          \A j \in DOMAIN extra_content[n].value :
             extra_content[n].key \o sSlash \o extra_content[n].value[j] # d
    /\ d \notin Range(required_directories)

\* the lines that belong to a target or to a subdirectory
TargetContent ==
    {"add_subdirectory", "comment", "set_project", "list_append", "list_end", "file",
     "raw", "add_library", "add_executable", "default_library"}

C11_UniqueIdentifier ==
    \A i, j \in DOMAIN libraries :
        libraries[i].canonic_name = libraries[j].canonic_name => i = j

\* C11 (witness): the Makefile.am files are parsed, the top directory and sub
\* declared the same canonical identifier, and the collection holds it once
C11_DeclaredTwice ==
    /\ pc = "exact"
    /\ \E D \in {Declarations} :
          \E j, k \in DOMAIN D :
             /\ j < k
             /\ D[j].identifier = D[k].identifier
             /\ D[j].program # D[k].program
             /\ \E n \in DOMAIN libraries :
                   /\ libraries[n].canonic_name = D[j].identifier
                   /\ libraries[n].directory = working_directory

\* C12: a line of configure.ac that is applied to an Option that exists
\* already leaves its description, its status and its bound symbol non-empty
\* when they were non-empty
C12_MergeKeepsFields ==
    [][(pc = "scan") =>
          (\A n \in DOMAIN options :
              /\ options[n].description # <<>> => options'[n].description # <<>>
              /\ options[n].status # <<>> => options'[n].status # <<>>
              /\ options[n].define # <<>> => options'[n].define # <<>>)]_vars

\* C13: the name of every Option of the registry is canonical: uppercased and
\* with _ for every -
C13_NamesCanonical ==
    \A n \in DOMAIN options : options[n].name = canonical_name(options[n].name)

\* whether line i of the text of a directory is a source line that was checked
\* for existence: written as it is when the file exists, commented out and
\* reported when it does not
checked_source(directory, text, i) ==
    /\ text[i].t = "file"
    /\ text[i].found <=> (directory \o sSlash \o text[i].file) \in source_files
    /\ ~text[i].found =>
          \E n \in DOMAIN diag :
             diag[n] = [t |-> "file_missing", path |-> directory \o sSlash \o text[i].file]

\* whether line i of a text is a line of a list(APPEND ...) of sources
source_line(text, i) ==
    /\ text[i].t \notin {"list_append", "list_end"}
    /\ \E j \in 1..(i - 1) :
          /\ text[j].t = "list_append"
          /\ \A k \in j..i : text[k].t # "list_end"

\* C14: when the run is over every source line of every list of sources of a
\* target, of the unconditional list and of the conditional groups, was
\* checked for existence in the directory of the target
C14_EverySourceChecked ==
    pc = "done" =>
        \E text \in {file_text(working_directory)} :
            \A i \in DOMAIN text :
                source_line(text, i) => checked_source(working_directory, text, i)

\* whether a line of a Makefile.am is a comment
comment_line(line) == StartsWith(Strip(line), <<"#">>)

\* whether a line of a Makefile.am is continued on the next line
continued_line(line) == EndsWith(Strip(line), <<"\\">>)

\* what process_makefile_am makes of the Makefile.am of the top directory
\* when its comment lines are taken out
parsed_without_comments ==
    process_makefile_am([libraries |-> <<>>, heap |-> <<>>, extra_content |-> <<>>,
                         required_directories |-> <<>>, ok |-> TRUE],
                        pathMakefileAm,
                        SelectSeq(makefiles[1].value, LAMBDA l : ~comment_line(l)),
                        exclude_directories)

\* whether the comment lines of the Makefile.am of the top directory left no
\* trace in the libraries, the variables and the subdirectories
comments_ignored ==
    /\ libraries = parsed_without_comments.libraries
    /\ heap = parsed_without_comments.heap
    /\ extra_content = parsed_without_comments.extra_content
    /\ required_directories = parsed_without_comments.required_directories

\* C15: process_makefile_am aborts on no Makefile.am, and once the file is
\* parsed (no line of it being continued) its comment lines have changed
\* neither the libraries nor the variables
C15_NeverAborts ==
    /\ pc # "crashed"
    /\ (pc = "exact" /\ \A k \in DOMAIN makefiles[1].value :
                           ~continued_line(makefiles[1].value[k])) => comments_ignored

sUseFoo == <<"u","s","e"," ","f","o","o">>

\* whether the argument declaration of foo that is written on two lines, with
\* no argument declaration after it, was read as one macro: the Option foo
\* has the description of the second line
split_argument_read ==
    \A k \in 1..(Len(content) - 1) :
        (/\ content[k] = cArgHead
         /\ content[k + 1] = cArgTail
         /\ \A j \in (k + 2)..Len(content) : ~StartsWith(content[j], sAC_ARG_ENABLE))
        => \E n \in DOMAIN options :
              options[n].key = <<"f","o","o">> /\ options[n].description = sUseFoo

\* C16: the scan of configure.ac aborts on no content, and when it is over a
\* macro that spans two lines was accumulated up to the line that balances
\* its parentheses
C16_ScanCompletes ==
    /\ pc # "crashed"
    /\ pc = "exact" => split_argument_read

\* the directory holds a CMakeLists.txt
has_file(d) == \E n \in DOMAIN disk : disk[n].key = d

\* the text of the CMakeLists.txt of a directory, <<>> without one
text_of(d) == IF has_file(d) THEN disk[CHOOSE n \in DOMAIN disk : disk[n].key = d].value ELSE <<>>

\* the first text is the beginning of the second
begins_with(whole, part) ==
    /\ Len(part) <= Len(whole)
    /\ SubSeq(whole, 1, Len(part)) = part

fallbacks(d) ==
    Cardinality({n \in DOMAIN diag : diag[n].t = "default_cmake" /\ diag[n].path = d})

\* how many CMakeFiles the run wrote into a directory
units(d) == IF HasKey(cmake_files, d) THEN 1 ELSE 0

\* a SUBDIRS line of the parent named the directory
registered(d) ==
    \E n \in DOMAIN extra_content :
       \E j \in DOMAIN extra_content[n].value :
          extra_content[n].key \o sSlash \o extra_content[n].value[j] = d

\* C18: at the end of the run every directory got at most one of the two, the
\* text of its CMakeFile or a default CMakeLists.txt, the default one only once
\* and only in a directory that a SUBDIRS line named and that is not excluded;
\* where a CMakeFile was written no default library stands in the file
C18_WrittenOnce ==
    pc = "done" =>
       \A d \in Directories :
          /\ fallbacks(d) + units(d) <= 1
          /\ fallbacks(d) > 0 => (registered(d) /\ ~excluded(d))
          /\ units(d) > 0 =>
                \A n \in DOMAIN text_of(d) : text_of(d)[n].t # "default_library"

\* libx_a
sLibxA == <<"l","i","b","x","_","a">>

\* the variable an assignment line names: the text before the first = without
\* the + and the blanks around it
variable_of(line) ==
    IF \E k \in DOMAIN line : line[k] = "="
    THEN Strip(RemoveChars(
            SubSeq(line, 1, (CHOOSE k \in DOMAIN line :
                                line[k] = "=" /\ \A j \in 1..(k - 1) : line[j] # "=") - 1),
            {"+"}))
    ELSE <<>>

\* the tokens an assignment line gives: the words after the first =
tokens_of(line) ==
    Split(SubSeq(line, (CHOOSE k \in DOMAIN line :
                           line[k] = "=" /\ \A j \in 1..(k - 1) : line[j] # "=") + 1,
                 Len(line)))

RECURSIVE assigned_tokens(_, _)
\* the tokens the lines assign to libx_a for the attribute of the suffixes:
\* = gives the tokens of the line, += the tokens before followed by them
assigned_tokens(lines, suffixes) ==
    IF lines = <<>> THEN <<>>
    ELSE LET before == assigned_tokens(SubSeq(lines, 1, Len(lines) - 1), suffixes)
             line == lines[Len(lines)]
         IN  IF variable_of(line) \in {sLibxA \o suffix : suffix \in suffixes}
             THEN (IF Contains(line, sPlusEq) THEN before \o tokens_of(line)
                   ELSE tokens_of(line))
             ELSE before

\* the compiler flags that name no variable
direct(tokens) ==
    SelectSeq(tokens, LAMBDA f : \A k \in DOMAIN f : f[k] \notin {"$", "@"})

\* C19: when the Makefile.am is read, the sources, the link libraries, the
\* linker flags and the compiler flags of the library libx.a are the tokens
\* of its assignments, those of a += after those before; at the end of the
\* run the COMPILE_FLAGS written for it are the compiler flags of all these
\* lines that name no variable, one by one
C19_TokensOfAssignments ==
    /\ pc \in {"exact", "done"} =>
          \A n \in DOMAIN libraries :
             libraries[n].canonic_name = sLibxA =>
                /\ libraries[n].filelist = assigned_tokens(makefiles[1].value, {s_SOURCES})
                /\ libraries[n].link_with_libs = assigned_tokens(makefiles[1].value, {s_LDADD})
                /\ libraries[n].linker_flags = assigned_tokens(makefiles[1].value, {s_LDFLAGS})
                /\ Split(libraries[n].compiler_flags)
                      = assigned_tokens(makefiles[1].value,
                                        {s_CFLAGS, s_CXXFLAGS, s_CPPFLAGS})
    /\ pc = "done" =>
          \A k \in DOMAIN text_of(working_directory) :
             text_of(working_directory)[k].t = "compile_flags" =>
                Split(text_of(working_directory)[k].flags)
                   = direct(assigned_tokens(makefiles[1].value,
                                            {s_CFLAGS, s_CXXFLAGS, s_CPPFLAGS}))

\* the line opens an if block / closes one
if_line(line) == Len(line) > 3 /\ SubSeq(line, 1, 3) = <<"i", "f", " ">>
endif_line(line) == Len(line) >= 5 /\ SubSeq(line, 1, 5) = <<"e", "n", "d", "i", "f">>

\* the condition of the if block in which line k stands, <<>> outside of one
active_condition(lines, k) ==
    LET opened == {i \in 1..(k - 1) :
                      /\ if_line(lines[i])
                      /\ \A j \in (i + 1)..(k - 1) :
                            ~if_line(lines[j]) /\ ~endif_line(lines[j])}
    IN  IF opened = {} THEN <<>>
        ELSE Strip(SubSeq(lines[CHOOSE i \in opened : TRUE], 4,
                          Len(lines[CHOOSE i \in opened : TRUE])))

\* the line assigns to an attribute of libx_a
attribute_line(line) ==
    variable_of(line) \in {sLibxA \o suffix :
                             suffix \in {s_SOURCES, s_LDADD, s_CFLAGS, s_CXXFLAGS,
                                         s_CPPFLAGS, s_LDFLAGS}}

\* the conditions under which the Makefile.am assigns to attributes of libx_a
target_conditions(lines) ==
    {active_condition(lines, k) : k \in {i \in DOMAIN lines : attribute_line(lines[i])}}
    \ {<<>>}

\* the condition of the if block of the text in which token j stands, <<>>
\* outside of one
enclosing_condition(text, j) ==
    LET opened == {i \in 1..(j - 1) :
                      /\ text[i].t = "if"
                      /\ \A n \in (i + 1)..(j - 1) : text[n].t \notin {"if", "endif"}}
    IN  IF opened = {} THEN <<>> ELSE text[CHOOSE i \in opened : TRUE].cond

\* the names under which a guard may state a condition: the condition itself
\* or the name of an option that has it as its define
guard_names(conditions) ==
    conditions \cup {options[n].name : n \in {i \in DOMAIN options :
                                                options[i].define \in conditions}}

\* C20: at the end of the run the creation command of libx.a stands in an if
\* block exactly when an assignment to one of its attributes stood in an if
\* block of the Makefile.am, and the guard then states the condition of that
\* block
C20_GuardIsOwnCondition ==
    pc = "done" =>
       \A j \in DOMAIN text_of(working_directory) :
          text_of(working_directory)[j].t \in {"add_library", "add_executable"} =>
             /\ (enclosing_condition(text_of(working_directory), j) # <<>>)
                   <=> (target_conditions(makefiles[1].value) # {})
             /\ target_conditions(makefiles[1].value) # {} =>
                   enclosing_condition(text_of(working_directory), j)
                      \in guard_names(target_conditions(makefiles[1].value))

\* the tokens of the if block that starts at token j of a text
block_tokens(text, j) ==
    {text[k] : k \in {i \in (j + 1)..Len(text) :
                        \A m \in (j + 1)..i : text[m].t # "endif"}}

\* the if blocks of a text that state a name and hold a list of sources
source_blocks(text, name) ==
    {j \in DOMAIN text :
        /\ text[j].t = "if"
        /\ text[j].cond = name
        /\ j < Len(text)
        /\ text[j + 1].t = "list_append"}

\* a token that tells the reader to fix something by hand
fix_marker(token) ==
    \/ token.t = "file" /\ ~token.found
    \/ token.t = "target_link_libraries" /\ \E n \in DOMAIN token.libs : token.libs[n].fix

\* C21: at the end of the run every conditional source group with a condition
\* stands once in an if block on the canonical name of the Option that has
\* the condition as its define; without such an Option it stands in an if
\* block on the condition itself, and a marker in the block or a diagnostic
\* tells that the condition was not matched
C21_GroupGuards ==
    pc = "done" =>
       \A n \in DOMAIN libraries :
          \A k \in DOMAIN libraries[n].conditional_appends :
             (libraries[n].directory = working_directory
              /\ libraries[n].conditional_appends[k].key # <<>>) =>
                IF \E i \in DOMAIN options :
                      options[i].define = libraries[n].conditional_appends[k].key
                THEN \A i \in DOMAIN options :
                        options[i].define = libraries[n].conditional_appends[k].key =>
                           Cardinality(source_blocks(text_of(working_directory),
                                                     canonical_name(options[i].name))) = 1
                ELSE \E j \in source_blocks(text_of(working_directory),
                                            libraries[n].conditional_appends[k].key) :
                        \/ \E token \in block_tokens(text_of(working_directory), j) :
                              fix_marker(token)
                        \/ \E d \in DOMAIN diag :
                              diag[d].t \notin {"file_missing", "creating_defaults",
                                                "default_cmake"}

\* D
sD == <<"D">>

\* the files the assignments to the variable D give under a condition, in the
\* order of the lines
group_files(lines, cond) ==
    Flatten([k \in DOMAIN lines |->
                IF variable_of(lines[k]) = sD /\ active_condition(lines, k) = cond
                THEN tokens_of(lines[k]) ELSE <<>>])

\* C22: when the Makefile.am is read, every entry of the conditional source
\* groups of a target holds the files of all the value lists of the variable
\* assigned under the condition of the entry, every file as an element of
\* its own
C22_EveryFileAnElement ==
    pc \notin {"scan", "crashed"} =>
       \A n \in DOMAIN libraries :
          \A k \in DOMAIN libraries[n].conditional_appends :
             heap[libraries[n].conditional_appends[k].cell]
                = group_files(makefiles[1].value, libraries[n].conditional_appends[k].key)

\* the flags of a library the loop of process_libraries starts with
worklist(library) == SelectSeq(compiler_flag_list(library), indirect_flag)

\* C23: for every compiler-flag list of a target - references to undefined
\* variables, to a variable defined by itself, duplicate tokens, @name@ tokens
\* and $(top_srcdir) - the substitution loop of process_libraries ends (the
\* run never hangs in it, the loop is done within MaxPasses passes), and no
\* token left in the list at its end holds a $
C23_FlagLoopEnds ==
    /\ pc # "hung"
    /\ \A n \in DOMAIN libraries :
          /\ ~resolved_flags(libraries[n], config_ac_variables).hung
          /\ \A k \in DOMAIN resolved_flags(libraries[n], config_ac_variables).work :
                ~Contains(resolved_flags(libraries[n], config_ac_variables).work[k], <<"$">>)

\* C23: a finished run whose library had a list with $(top_srcdir) and the
\* same reference to a defined variable twice, and tokens left in the list
\* when the loop ended
C23_LoopRan ==
    /\ pc = "done"
    /\ \E n \in DOMAIN libraries :
          /\ \E i, j \in DOMAIN worklist(libraries[n]) :
                i # j /\ worklist(libraries[n])[i] = worklist(libraries[n])[j]
          /\ \E i \in DOMAIN worklist(libraries[n]) :
                Contains(worklist(libraries[n])[i], s_top_srcdir)
          /\ HasKey(config_ac_variables, <<"V">>)
          /\ resolved_flags(libraries[n], config_ac_variables).work # <<>>

\* -I$(top_srcdir)
sTopInclude == sDashI \o <<"$", "(">> \o s_top_srcdir \o <<")">>

\* ${CMAKE_SOURCE_DIR}
sSourceDirVariable == <<"$">> \o sCMAKE_SOURCE_DIR

\* the directories of the target_include_directories commands a text holds
\* for a target
include_entries(text, name) ==
    UNION {Range(text[k].dirs) :
              k \in {j \in DOMAIN text : /\ text[j].t = "target_include_directories"
                                         /\ text[j].name = name}}

\* the -I words of the values configure.ac gives the variable of a flag $(name)
substituted_includes(flag, cav) ==
    IF /\ Len(flag) > 3
       /\ SubSeq(flag, 1, 2) = <<"$", "(">>
       /\ flag[Len(flag)] = ")"
       /\ HasKey(cav, SubSeq(flag, 3, Len(flag) - 1))
    THEN UNION {{w \in Range(Split(v)) : begins_with(w, sDashI)} :
                   v \in Range(cav[KeyIndex(cav, SubSeq(flag, 3, Len(flag) - 1))].value)}
    ELSE {}

\* C24, the flags taken from variables: every -I word of the value of a
\* variable of configure.ac that a compiler flag $(name) of a target refers
\* to is a directory of the target_include_directories of the target
C24_SubstitutedIncludes ==
    pc = "done" =>
       \A n \in DOMAIN libraries :
          \A f \in Range(Split(libraries[n].compiler_flags)) :
             \A w \in substituted_includes(f, config_ac_variables) :
                SubSeq(w, 3, Len(w))
                   \in include_entries(text_of(working_directory), libraries[n].referred_name)

\* C24: a compiler flag -I$(top_srcdir)/<path> of a target gives the
\* directory ${CMAKE_SOURCE_DIR}/<path> in the target_include_directories of
\* the target, and so does every -I word a flag $(name) stands for
C24_TopSrcdirInclude ==
    /\ C24_SubstitutedIncludes
    /\ pc = "done" =>
          \A n \in DOMAIN libraries :
             \A f \in Range(Split(libraries[n].compiler_flags)) :
                begins_with(f, sTopInclude) =>
                   sSourceDirVariable \o SubSeq(f, Len(sTopInclude) + 1, Len(f))
                      \in include_entries(text_of(working_directory),
                                          libraries[n].referred_name)

\* the name of a reference $(name), <<>> for any other word
dollar_name(word) ==
    IF Len(word) > 3 /\ SubSeq(word, 1, 2) = <<"$", "(">> /\ word[Len(word)] = ")"
    THEN SubSeq(word, 3, Len(word) - 1) ELSE <<>>

\* the name of a reference @name@, <<>> for any other word
at_name(word) ==
    IF Len(word) > 2 /\ word[1] = "@" /\ word[Len(word)] = "@"
    THEN SubSeq(word, 2, Len(word) - 1) ELSE <<>>

\* the text marks the word as one to fix and a diagnostic names it
surfaced(text, word) ==
    /\ \E k \in DOMAIN text :
          /\ text[k].t = "target_link_libraries"
          /\ \E l \in Range(text[k].libs) : l.fix /\ l.name = word
    /\ \E k \in DOMAIN diag : diag[k].t = "link_unknown" /\ diag[k].name = word

\* a link library @name@ that configure.ac does not define is surfaced
unknown_at_links_surfaced ==
    \A n \in DOMAIN libraries :
       \A w \in Range(libraries[n].link_with_libs) :
          (at_name(w) # <<>> /\ ~HasKey(config_ac_variables, at_name(w)))
             => surfaced(text_of(libraries[n].directory), w)

\* a link library $(name) that is no variable of the target is surfaced
unknown_dollar_links_surfaced ==
    \A n \in DOMAIN libraries :
       \A w \in Range(libraries[n].link_with_libs) :
          (dollar_name(w) # <<>> /\ ~HasKey(libraries[n].just_variables, dollar_name(w)))
             => surfaced(text_of(libraries[n].directory), w)

\* a compiler flag $(name) that configure.ac does not define is surfaced
unknown_flags_surfaced ==
    \A n \in DOMAIN libraries :
       \A f \in Range(Split(libraries[n].compiler_flags)) :
          (dollar_name(f) # <<>> /\ dollar_name(f) # s_top_srcdir
             /\ ~HasKey(config_ac_variables, dollar_name(f)))
             => surfaced(text_of(libraries[n].directory), f)

\* C25: at the end of a run every reference of a target that could not be
\* resolved - a link library $(name) that is no variable of the target, a
\* link library @name@ and a compiler flag $(name) that configure.ac does not
\* define - has a marker in the generated text and a diagnostic, and the run
\* did not stop
C25_UnresolvedSurfaced ==
    /\ pc # "crashed"
    /\ pc = "done" =>
          /\ unknown_at_links_surfaced
          /\ unknown_dollar_links_surfaced
          /\ unknown_flags_surfaced

\* line k of a Makefile.am is consumed as the continuation of an assignment:
\* an assignment begins at a line before it and every line from there to the
\* line before k ends with a backslash
consumed(lines, k) ==
    \E i \in 1..(k - 1) :
       /\ Contains(lines[i], <<"=">>)
       /\ ~begins_with(Strip(lines[i]), <<"#">>)
       /\ \A j \in i..(k - 1) :
             Strip(lines[j]) # <<>> /\ Strip(lines[j])[Len(Strip(lines[j]))] = "\\"

\* the variable is assigned by a line that is a statement of its own
assigned_by_statement(lines, variable) ==
    \E k \in DOMAIN lines : ~consumed(lines, k) /\ variable_of(lines[k]) = variable

\* C26: a line of the Makefile.am that was consumed as the continuation of
\* an assignment and contains an = is no statement of its own: at the end of
\* the run the name before its = is no variable of a target and, when it
\* reads like an assignment to the sources of libx.a, gave the library no source
C26_ContinuationOnce ==
    pc = "done" =>
       \A k \in DOMAIN makefiles[1].value :
          (/\ consumed(makefiles[1].value, k)
           /\ Contains(makefiles[1].value[k], <<"=">>)
           /\ ~assigned_by_statement(makefiles[1].value, variable_of(makefiles[1].value[k])))
          => \A n \in DOMAIN libraries :
                /\ ~HasKey(libraries[n].just_variables, variable_of(makefiles[1].value[k]))
                /\ variable_of(makefiles[1].value[k]) = sLibxA \o s_SOURCES
                      => libraries[n].filelist = <<>>

RECURSIVE recorded_conditions(_, _)
\* the conditions the first k lines record for libx_a: the active condition
\* of every line that assigns to one of its attributes, one after the other
recorded_conditions(lines, k) ==
    IF k = 0 THEN <<>>
    ELSE recorded_conditions(lines, k - 1)
            \o (IF attribute_line(lines[k]) THEN active_condition(lines, k) ELSE <<>>)

\* C27: with every assignment on one line, the conditions recorded for
\* libx.a when the Makefile.am is read are those of the lines if <TOKEN> and
\* endif alone: every assignment to an attribute of the library records the
\* token of the last if line that no if or endif line follows, or nothing;
\* a line that names a variable beginning with if changes nothing
C27_ConditionOfIfLines ==
    (/\ pc = "exact"
     /\ \A k \in DOMAIN makefiles[1].value : ~consumed(makefiles[1].value, k + 1))
    => \A n \in DOMAIN libraries :
          libraries[n].canonic_name = sLibxA =>
             libraries[n].condition.chars
                = recorded_conditions(makefiles[1].value, Len(makefiles[1].value))

\* the commands that create a target / that refer to one
creation_commands == {"add_library", "add_executable"}
target_commands == {"compile_flags", "target_include_directories", "target_link_libraries"}

\* the creation command that a command of a text follows
creation_before(text, k) ==
    CHOOSE j \in 1..(k - 1) :
       /\ text[j].t \in creation_commands
       /\ \A i \in (j + 1)..(k - 1) : text[i].t \notin creation_commands

\* C28: at the end of the run every set_target_properties,
\* target_include_directories and target_link_libraries command of the
\* generated text names the target by the name of the add_library or
\* add_executable command that it follows
C28_OneNamePerTarget ==
    pc = "done" =>
       \A k \in DOMAIN text_of(working_directory) :
          text_of(working_directory)[k].t \in target_commands =>
             /\ \E j \in 1..(k - 1) : text_of(working_directory)[j].t \in creation_commands
             /\ text_of(working_directory)[k].name
                   = text_of(working_directory)[creation_before(text_of(working_directory), k)].name

\* the Options that list a symbol among their extra defines
attached_to(symbol) ==
    {n \in DOMAIN options : symbol \in Range(options[n].extra_defines)}

\* the #define lines of the top level file that are written for a symbol as
\* an extra define
extra_define_lines_of(text, symbol) ==
    {i \in DOMAIN text :
        /\ text[i].t = "define"
        /\ text[i].kind = "extra"
        /\ text[i].symbol = remove_garbage(symbol)}

\* C29: once the fuzzy pass is over every Define is an extra define of at most
\* one Option, and the top level file holds at most one #define line that is
\* written for it as an extra define
C29_AttachedOnce ==
    /\ pc \in {"toplevel", "libraries", "done"} =>
          \A k \in DOMAIN temp_defines :
             Cardinality(attached_to(temp_defines[k].name)) <= 1
    /\ pc = "libraries" =>
          \A k \in DOMAIN temp_defines :
             Cardinality(extra_define_lines_of(file_text(working_directory),
                                               temp_defines[k].name)) <= 1

\* the words of the file list of a library that refer to a variable which a
\* line of the Makefile.am assigns: the references the post-pass resolves
resolved_references(library, lines) ==
    {f \in Range(library.filelist) :
        /\ dollar_name(f) # <<>>
        /\ library.conditional_appends # <<>>
        /\ \E k \in DOMAIN lines : variable_of(lines[k]) = dollar_name(f)}

\* C30: at the end of the run a source $(name) of libx.a that the post-pass
\* resolved is no source line of the generated text, found or not, and no
\* diagnostic names it as a missing file
C30_ResolvedNotEmitted ==
    pc = "done" =>
       \A n \in DOMAIN libraries :
          \A f \in resolved_references(libraries[n], makefiles[1].value) :
             /\ \A i \in DOMAIN text_of(libraries[n].directory) :
                   text_of(libraries[n].directory)[i].t = "file"
                      => text_of(libraries[n].directory)[i].file # f
             /\ \A d \in DOMAIN diag :
                   diag[d].t = "file_missing"
                      => diag[d].path # libraries[n].directory \o sSlash \o f

=============================================================================
